---- MODULE Spec2Model ----
(***************************************************************************)
(* A model of the data layer of the preorder dashboard: the commerce       *)
(* connector's retry loop (data/shopify_api.py), the unified data facade   *)
(* and its test mode (data/data_service.py), and the overrides CSV file    *)
(* as pandas reads and writes it.                                          *)
(***************************************************************************)
EXTENDS Integers, Sequences, FiniteSets, TLC

VARIABLES
    testMode,   \* DataService.test_mode
    svc,        \* "unbuilt", "ready" or "failed": the outcome of DataService(...)
    connectors, \* the connectors DataService.__init__ constructed
    env,        \* the process environment the connectors read
    today,      \* the clock: datetime.now().date(), in days since 2024-01-01
    file,       \* overrides/pub_date_overrides.csv
    audit,      \* the audit directory and the files it holds
    tracking,   \* preorders/NYT_preorder_tracking.csv: "missing", "rows" or "garbled"
    ret,        \* the last facade call and what it returned
    latest,     \* history: ISBN -> date of its most recent successful update
    hist,       \* history: test-mode query -> the payloads it has returned
    net,        \* history: an HTTP request was issued since construction
    touched,    \* history: the data files read or written since construction
    rq,         \* the last direct run_query_with_retries call and its outcome
    threads,    \* the update_pub_date_override calls in flight, one per thread
    loop,       \* the get_preorder_sales call in flight, between two pages
    session     \* st.session_state, the widgets' state and what the last run displayed

vars == << testMode, svc, connectors, env, today, file, audit, tracking, ret, latest,
           hist, net, touched, rq, threads, loop, session >>

(***************************************************************************)
(* Bounds of the model.                                                    *)
(***************************************************************************)
Day0 == 424          \* the clock's first reading: 2025-02-28
MaxTicks == 1        \* days the clock may advance
MaxRows == 3         \* rows the overrides file may grow to
MaxScript == 3       \* server responses scripted for one query
MaxProducts == 1     \* products a collection response may hold
MaxIssues == 2       \* issues the issue tracker may return
MaxBodyLines == 2    \* lines an issue body may hold
MaxPages == 2        \* pages of issues the server may be asked for

(***************************************************************************)
(* Text.  A string is a sequence of character codes: 0..9 are the digits,  *)
(* 10 is the letter X (an ISBN-10 check character).                        *)
(***************************************************************************)
IsDigits(s) == Len(s) > 0 /\ \A i \in 1..Len(s) : s[i] \in 0..9

RECURSIVE TextToInt(_)
TextToInt(s) ==
    IF s = << >> THEN 0
    ELSE 10 * TextToInt(SubSeq(s, 1, Len(s) - 1)) + s[Len(s)]

RECURSIVE IntToText(_)
IntToText(n) ==
    IF n < 10 THEN << n >> ELSE Append(IntToText(n \div 10), n % 10)

(***************************************************************************)
(* date.strftime('%Y-%m-%d') of the date n days after 2024-01-01.          *)
(***************************************************************************)
IsLeap(y) == (y % 4 = 0 /\ y % 100 # 0) \/ y % 400 = 0

YearLen(y) == IF IsLeap(y) THEN 366 ELSE 365

MonthLen(y, m) ==
    IF m = 2 THEN (IF IsLeap(y) THEN 29 ELSE 28)
    ELSE IF m \in {4, 6, 9, 11} THEN 30 ELSE 31

RECURSIVE DateFrom(_, _, _)
DateFrom(y, m, n) ==
    IF m = 1 /\ n >= YearLen(y) THEN DateFrom(y + 1, 1, n - YearLen(y))
    ELSE IF n >= MonthLen(y, m) THEN DateFrom(y, m + 1, n - MonthLen(y, m))
    ELSE [y |-> y, m |-> m, d |-> n + 1]

Strftime(n) == DateFrom(2024, 1, n)

(***************************************************************************)
(* The overrides CSV file and pandas' view of it.                          *)
(*                                                                         *)
(* On disk a cell is text.  pd.read_csv infers one dtype per column: an    *)
(* ISBN column whose every cell is a digit string becomes int64 (leading   *)
(* zeros are lost), any other ISBN column keeps its cells as str.  The     *)
(* other columns hold dates with '-', notes and timestamps, which stay     *)
(* str.  to_csv writes an int as its decimal digits and a str as it is.    *)
(***************************************************************************)
OverrideColumns == << "ISBN", "Corrected_Pub_Date", "Notes", "Updated_At" >>

NoFile == [exists |-> FALSE, header |-> << >>, rows |-> << >>]

IntCell(n) == [t |-> "int", n |-> n, s |-> << >>]
StrCell(s) == [t |-> "str", n |-> 0, s |-> s]

CellText(c) == IF c.t = "int" THEN IntToText(c.n) ELSE c.s

\* pd.read_csv(override_file)
ReadCsv(f) ==
    LET numeric == Len(f.rows) > 0
                   /\ \A i \in 1..Len(f.rows) : IsDigits(f.rows[i].ISBN)
        cell(s) == IF numeric THEN IntCell(TextToInt(s)) ELSE StrCell(s)
    IN  [columns |-> f.header,
         rows |-> [i \in 1..Len(f.rows) |->
                     [f.rows[i] EXCEPT !.ISBN = cell(f.rows[i].ISBN)]]]

\* pd.DataFrame(columns=[...])
EmptyFrame == [columns |-> OverrideColumns, rows |-> << >>]

\* overrides_df.to_csv(override_file, index=False)
ToCsv(df) ==
    [exists |-> TRUE,
     header |-> df.columns,
     rows |-> [i \in 1..Len(df.rows) |->
                 [df.rows[i] EXCEPT !.ISBN = CellText(df.rows[i].ISBN)]]]

HasColumn(df, c) == \E i \in 1..Len(df.columns) : df.columns[i] = c

\* The rows whose ISBN cell equals the str isbn: an int64 cell never equals a str.
Matches(df, isbn) ==
    {i \in 1..Len(df.rows) : df.rows[i].ISBN.t = "str" /\ df.rows[i].ISBN.s = isbn}

MinOf(S) == CHOOSE i \in S : \A j \in S : i <= j

(***************************************************************************)
(* Exceptions.  An operation's outcome is a record: exc is "none" or the   *)
(* exception that left it, val the value returned, file the overrides file *)
(* it leaves behind, net whether it issued an HTTP request, touched the    *)
(* data files it accessed.                                                 *)
(***************************************************************************)
\* Python values of different types, told apart by their field name.
None == [none |-> TRUE]
Bool(b) == [bool |-> b]
List(l) == [list |-> l]
Map(m) == [map |-> m]
Dict(d) == [dict |-> d]
Table(cols, rows) == [columns |-> cols, table |-> rows]

Return(v, f, n, t) == [exc |-> "none", val |-> v, file |-> f, net |-> n, touched |-> t]

Raise(e, f, n, t) == [exc |-> e, val |-> None, file |-> f, net |-> n, touched |-> t]

CatchOSErrorOnly(body, default) ==
    IF body.exc = "OSError" THEN [body EXCEPT !.exc = "none", !.val = default]
    ELSE body

\* try: <body> except Exception as e: log; return <default>
Catch(body, default) ==
    IF body.exc # "none" THEN [body EXCEPT !.exc = "none", !.val = default]
    ELSE body


(***************************************************************************)
(* DataService.update_pub_date_override and get_pub_date_overrides.        *)
(***************************************************************************)
NewRow(isbn, date, now) ==
    [ISBN |-> StrCell(isbn), Corrected_Pub_Date |-> date,
     Notes |-> "Added via dashboard", Updated_At |-> Strftime(now)]

\* Lines 206-220, were the rows that were read dropped.
UpsertOwnRowOnly(df, isbn, date, now) ==
    [df EXCEPT !.rows = << NewRow(isbn, date, now) >>]

\* Lines 206-220: update the first row whose ISBN equals isbn, or append a row.
Upsert(df, isbn, date, now) ==
    IF HasColumn(df, "ISBN") /\ Matches(df, isbn) # {}
    THEN [df EXCEPT !.rows[MinOf(Matches(df, isbn))] =
              [@ EXCEPT !.Corrected_Pub_Date = date, !.Updated_At = Strftime(now)]]
    ELSE [df EXCEPT !.rows = Append(df.rows, NewRow(isbn, date, now))]

UpdateBodyReadsMissingFile(f, isbn, date, now, io) ==
    IF io = "makedirs" THEN Raise("OSError", f, FALSE, {})
    ELSE IF ~f.exists \/ io = "read" THEN Raise("OSError", f, FALSE, {"overrides"})
    ELSE IF io = "write" THEN Raise("OSError", f, FALSE, {"overrides"})
    ELSE Return(Bool(TRUE), ToCsv(Upsert(ReadCsv(f), isbn, date, now)), FALSE,
                {"overrides"})

UpdateBody(f, isbn, date, now, io) ==
    IF io = "makedirs" THEN Raise("OSError", f, FALSE, {})
    ELSE IF f.exists /\ io = "read" THEN Raise("OSError", f, FALSE, {"overrides"})
    ELSE LET df == IF f.exists THEN ReadCsv(f) ELSE EmptyFrame
         IN  IF io = "write" THEN Raise("OSError", f, FALSE, {"overrides"})
             ELSE Return(Bool(TRUE), ToCsv(Upsert(df, isbn, date, now)), FALSE, {"overrides"})

UpdateTestModeWrites(tm, f, isbn, date, now, io) ==
    Catch(UpdateBody(f, isbn, date, now, io), Bool(FALSE))

UpdatePubDateOverride(tm, f, isbn, date, now, io) ==
    IF tm THEN Return(Bool(TRUE), f, FALSE, {})
    ELSE Catch(UpdateBody(f, isbn, date, now, io), Bool(FALSE))

\* A mapping is a function; the empty mapping {} is the function of no keys.
EmptyMap == Map(<< >>)

\* Lines 166-169: later rows overwrite earlier rows of the same key.
OverridesOf(df) ==
    LET keys == {df.rows[i].ISBN : i \in 1..Len(df.rows)}
        last(k) == CHOOSE i \in 1..Len(df.rows) :
                      /\ df.rows[i].ISBN = k
                      /\ \A j \in 1..Len(df.rows) : df.rows[j].ISBN = k => j <= i
    IN  Map([k \in keys |-> df.rows[last(k)].Corrected_Pub_Date])

SampleIsbn(last) == StrCell(<< 9, 7, 8, 1, 2, 3, 4, 5, 6, 7, 8, 9, last >>)

\* DataService._get_test_pub_date_overrides
TestPubDateOverrides(now) ==
    Map([k \in {SampleIsbn(0), SampleIsbn(2)} |->
            IF k = SampleIsbn(0) THEN Strftime(now + 45) ELSE Strftime(now + 15)])

GetOverridesBody(f, io) ==
    IF ~f.exists THEN Return(EmptyMap, f, FALSE, {"overrides"})
    ELSE IF io = "read" THEN Raise("OSError", f, FALSE, {"overrides"})
    ELSE Return(OverridesOf(ReadCsv(f)), f, FALSE, {"overrides"})

GetPubDateOverrides(tm, f, now, io) ==
    IF tm THEN Return(TestPubDateOverrides(now), f, FALSE, {})
    ELSE Catch(GetOverridesBody(f, io), EmptyMap)

(***************************************************************************)
(* ShopifyConnector.run_query_with_retries.                                *)
(*                                                                         *)
(* The server is a script: script[i] is its answer to the i-th request of  *)
(* the call.  An answer's st is "exception" (requests.post, response.json  *)
(* or data['data'] raises), "non200", "errors" (status 200 and an 'errors' *)
(* key) or "ok" (status 200, no 'errors' key, 'data' present); data is the *)
(* answer's 'data'.  time.sleep is not modelled.                           *)
(***************************************************************************)
ResponseKinds == {"exception", "non200", "errors", "ok"}

DefaultMaxRetries == 3

RECURSIVE RunFrom(_, _, _, _)
RunFrom(script, max_retries, attempt, requests) ==
    IF attempt < max_retries
    THEN LET response == script[requests + 1]
         IN  IF response.st = "ok"
             THEN [kind |-> "return", data |-> response.data,
                   n |-> max_retries, requests |-> requests + 1]
             ELSE RunFrom(script, max_retries, attempt + 1, requests + 1)
    ELSE [kind |-> "raise", data |-> None,
          n |-> max_retries, requests |-> requests]

RunOneAttemptShort(script, max_retries) ==
    RunFrom(script, IF max_retries > 0 THEN max_retries - 1 ELSE 0, 0, 0)

RunReturnsNoneWhenExhausted(script, max_retries) ==
    LET r == RunFrom(script, max_retries, 0, 0)
    IN  IF r.kind = "raise" THEN [r EXCEPT !.kind = "return"] ELSE r

\* The loop, were every attempt spent even after an answer was accepted.
RunSpendsEveryAttempt(script, max_retries) ==
    [RunFrom(script, max_retries, 0, 0) EXCEPT !.requests = max_retries]

RunQueryWithRetries(script, max_retries) == RunFrom(script, max_retries, 0, 0)

(***************************************************************************)
(* ShopifyConnector.get_products_from_collection.  A response's data is    *)
(* [coll, edges]: coll is "null" when collectionByHandle is null, and an   *)
(* edge is [ok, id]: ok is FALSE when the edge lacks 'node', 'id' or       *)
(* 'title'.                                                                *)
(***************************************************************************)
PubDate(n) == [date |-> Strftime(n)]
PubText(s) == [text |-> s]

Product(id, title, barcode, pub_date, collections) ==
    [id |-> id, title |-> title, barcode |-> barcode, pub_date |-> pub_date,
     collections |-> collections]

\* Lines 163-190: the fields read from one product node.
ExtractProduct(edge) ==
    Product(edge.id, "Live title", << 9, 7, 9 >>, None, << "Preorder" >>)

CollectionBody(script, limit) ==
    LET r == RunQueryWithRetries(script, DefaultMaxRetries)
    IN  IF r.kind = "raise" THEN Raise("Exception", NoFile, r.requests > 0, {})
        ELSE IF r.data.coll = "null"
        THEN Raise("AttributeError", NoFile, r.requests > 0, {})
        ELSE IF \E i \in 1..Len(r.data.edges) : ~r.data.edges[i].ok
        THEN Raise("KeyError", NoFile, r.requests > 0, {})
        ELSE Return(List([i \in 1..Len(r.data.edges) |-> ExtractProduct(r.data.edges[i])]),
                    NoFile, r.requests > 0, {})

GetProductsUncaught(script, limit) == CollectionBody(script, limit)

GetProductsFromCollection(script, limit) ==
    Catch(CollectionBody(script, limit), List(<< >>))

(***************************************************************************)
(* DataService.get_preorder_products and its sample dataset.               *)
(***************************************************************************)
\* s[:n]
Slice(s, n) ==
    IF n >= 0 THEN SubSeq(s, 1, IF n < Len(s) THEN n ELSE Len(s))
    ELSE SubSeq(s, 1, IF Len(s) + n > 0 THEN Len(s) + n ELSE 0)

TestProductList(now) ==
    << Product("gid://shopify/Product/1111111111", "Future Release Book", SampleIsbn(0).s,
               PubDate(now + 30), << "Preorder", "Fiction" >>),
       Product("gid://shopify/Product/2222222222", "Recent Release Book", SampleIsbn(1).s,
               PubDate(now - 3), << "Preorder", "Non-fiction" >>),
       Product("gid://shopify/Product/3333333333", "Past Due Book", SampleIsbn(2).s,
               PubDate(now - 60), << "Preorder", "Science Fiction" >>),
       Product("gid://shopify/Product/4444444444", "Missing Date Book", SampleIsbn(3).s,
               None, << "Preorder", "Mystery" >>),
       Product("gid://shopify/Product/5555555555", "Malformed Date Book", SampleIsbn(4).s,
               PubText("Coming Soon"), << "Preorder", "Poetry" >>) >>

\* DataService._get_test_preorder_products
TestPreorderProducts(limit, now) == List(Slice(TestProductList(now), limit))

\* Lines 76-82: the connector's list is returned unless it is None.
ProductsBody(f, script, limit, now) ==
    LET c == GetProductsFromCollection(script, limit)
    IN  IF c.exc # "none" THEN Raise(c.exc, f, c.net, {})
        ELSE IF c.val # None THEN Return(c.val, f, c.net, {})
        ELSE Return(TestPreorderProducts(limit, now), f, c.net, {})

GetPreorderProducts(tm, f, script, limit, now) ==
    IF tm THEN Return(TestPreorderProducts(limit, now), f, FALSE, {})
    ELSE Catch(ProductsBody(f, script, limit, now), TestPreorderProducts(limit, now))

(***************************************************************************)
(* show_preorder_management, the 'Current Preorders' tab.  A publication   *)
(* date is None, [date |-> d] (a 'YYYY-MM-DD' text) or [text |-> s] (any   *)
(* other text).  A search term is a digit string; no title of the model    *)
(* holds a digit, so only the barcode can match it.                        *)
(***************************************************************************)
DateFilters ==
    {"All", "Future Dates", "Past Dates", "Next 30 Days", "Missing Dates", "Malformed Dates"}

SortOptions == {"Title", "Publication Date"}

\* a date as a number that orders as the date does
DateNumber(d) == d.y * 10000 + d.m * 100 + d.d

\* term in str(barcode)
IsInfix(term, text) ==
    \E i \in 0..(Len(text) - Len(term)) : SubSeq(text, i + 1, i + Len(term)) = term

\* Lines 70-77, were the override only flagged and the source date kept.
ApplyOverrideFlagOnly(product, overrides) ==
    [id |-> product.id, title |-> product.title, barcode |-> product.barcode,
     collections |-> product.collections, pub_date |-> product.pub_date,
     pub_date_original |-> IF StrCell(product.barcode) \in DOMAIN overrides.map
                           THEN product.pub_date ELSE None,
     has_override |-> StrCell(product.barcode) \in DOMAIN overrides.map]

\* Lines 70-77.  The keys of the mapping are cells: a str barcode is a key
\* only when the mapping holds it as a str.
ApplyOverride(product, overrides) ==
    IF StrCell(product.barcode) \in DOMAIN overrides.map
    THEN [id |-> product.id, title |-> product.title, barcode |-> product.barcode,
          collections |-> product.collections,
          pub_date |-> [date |-> overrides.map[StrCell(product.barcode)]],
          pub_date_original |-> product.pub_date, has_override |-> TRUE]
    ELSE [id |-> product.id, title |-> product.title, barcode |-> product.barcode,
          collections |-> product.collections, pub_date |-> product.pub_date,
          pub_date_original |-> None, has_override |-> FALSE]

\* Lines 86-96
IsMissingDate(pub_date) == pub_date = None
IsMalformedDate(pub_date) == pub_date # None /\ "text" \in DOMAIN pub_date

\* Lines 79-83
PassesSearch(product, search_term) ==
    search_term = << >> \/ IsInfix(search_term, product.barcode)

\* Lines 103-113
PassesDateFilter(pub_date, date_filter, now) ==
    LET bad == IsMissingDate(pub_date) \/ IsMalformedDate(pub_date)
        day == DateNumber(pub_date.date)
    IN  CASE date_filter = "Future Dates" -> ~bad /\ day > DateNumber(Strftime(now))
          [] date_filter = "Past Dates" -> ~bad /\ day <= DateNumber(Strftime(now))
          [] date_filter = "Next 30 Days" ->
                 ~bad /\ day <= DateNumber(Strftime(now + 30))
                      /\ day >= DateNumber(Strftime(now))
          [] date_filter = "Missing Dates" -> IsMissingDate(pub_date)
          [] date_filter = "Malformed Dates" -> IsMalformedDate(pub_date)
          [] OTHER -> TRUE

\* Lines 62-68 and 70-77: the products that have a barcode, after the override.
RECURSIVE Processed(_, _)
Processed(products, overrides) ==
    IF products = << >> THEN << >>
    ELSE IF Head(products).barcode = << >> THEN Processed(Tail(products), overrides)
    ELSE << ApplyOverride(Head(products), overrides) >>
         \o Processed(Tail(products), overrides)

\* x.get('title', '').lower(), as the rank of the title among the titles of
\* the model.
LowerTitleRank(title) ==
    CASE title = "Future Release Book" -> 1
      [] title = "Live title" -> 2
      [] title = "Malformed Date Book" -> 3
      [] title = "Missing Date Book" -> 4
      [] title = "Past Due Book" -> 5
      [] title = "Recent Release Book" -> 6

\* Lines 123-130: datetime.max for a missing date, datetime.max less a day for
\* a malformed one (both datetime), else the parsed date (a date).
SortKey(product) ==
    IF IsMissingDate(product.pub_date) THEN [type |-> "datetime", n |-> 2]
    ELSE IF IsMalformedDate(product.pub_date) THEN [type |-> "datetime", n |-> 1]
    ELSE [type |-> "date", n |-> DateNumber(product.pub_date.date)]

\* list.sort(key=...): stable, ascending.  s is a sequence of [key, item].
RECURSIVE InsertByKey(_, _)
InsertByKey(x, sorted) ==
    IF sorted = << >> THEN << x >>
    ELSE IF Head(sorted).key > x.key THEN << x >> \o sorted
    ELSE << Head(sorted) >> \o InsertByKey(x, Tail(sorted))

RECURSIVE SortByKey(_, _)
SortByKey(s, sorted) ==
    IF s = << >> THEN sorted ELSE SortByKey(Tail(s), InsertByKey(Head(s), sorted))

\* Lines 119-132.  Ordering a date against a datetime raises TypeError.
SortProducts(products, sort_by) ==
    IF sort_by = "Title"
    THEN LET sorted == SortByKey([i \in 1..Len(products) |->
                                     [key |-> LowerTitleRank(products[i].title),
                                      item |-> products[i]]], << >>)
         IN  [exc |-> "none", products |-> [i \in 1..Len(sorted) |-> sorted[i].item]]
    ELSE IF \E i, j \in 1..Len(products) :
                SortKey(products[i]).type # SortKey(products[j]).type
    THEN [exc |-> "TypeError", products |-> << >>]
    ELSE LET sorted == SortByKey([i \in 1..Len(products) |->
                                     [key |-> SortKey(products[i]).n,
                                      item |-> products[i]]], << >>)
         IN  [exc |-> "none", products |-> [i \in 1..Len(sorted) |-> sorted[i].item]]

\* Lines 139-159
DisplayRow(product) ==
    [ISBN |-> product.barcode,
     Title |-> product.title,
     Publication_Date |->
         IF IsMissingDate(product.pub_date) THEN [missing |-> TRUE]
         ELSE IF IsMalformedDate(product.pub_date) THEN [invalid |-> product.pub_date.text]
         ELSE product.pub_date,
     Original_Date |-> IF product.has_override THEN product.pub_date_original ELSE None,
     Override_Applied |-> product.has_override]

KeepListed(product, search_term, date_filter, now) ==
    /\ PassesSearch(product, search_term)
    /\ PassesDateFilter(product.pub_date, date_filter, now)

\* Lines 58-160: [exc, processed, listed, rows]
CurrentPreorders(products, overrides, search_term, date_filter, sort_by, now) ==
    LET processed == Processed(products, overrides)
        keeps(p) == KeepListed(p, search_term, date_filter, now)
        sorted == SortProducts(SelectSeq(processed, keeps), sort_by)
    IN  [exc |-> sorted.exc,
         processed |-> processed,
         listed |-> sorted.products,
         rows |-> [i \in 1..Len(sorted.products) |-> DisplayRow(sorted.products[i])]]

(***************************************************************************)
(* DataService.get_pending_releases.  A file name is its sequence of       *)
(* character codes; the audit directory maps each name it holds to the     *)
(* file's modification time and content.  A content is "object" (a JSON    *)
(* object, here with total_quantity q), "array" (valid JSON that is no     *)
(* object) or "malformed" (json.load raises).                              *)
(***************************************************************************)
PendingPrefix ==  \* 'pending_releases_'
    << 112, 101, 110, 100, 105, 110, 103, 95, 114, 101, 108, 101, 97, 115, 101, 115, 95 >>

JsonSuffix == << 46, 106, 115, 111, 110 >>      \* '.json'

StartsWith(s, p) == Len(s) >= Len(p) /\ SubSeq(s, 1, Len(p)) = p

(***************************************************************************)
(* ShopifyConnector.get_preorder_sales.  A page of orders is               *)
(* [orders, hasNextPage]; an order is [id, cancelled, items]; a line item  *)
(* is [variant, product, titled, barcode, quantity]: variant and product   *)
(* are FALSE when they are null, titled is FALSE when the product lacks    *)
(* its 'title', and a null or empty barcode is ''.  A barcode is a         *)
(* sequence of the digits 0..9.  pages[k] is the script that answers the   *)
(* query of the k-th page; a query after the last page of the script is    *)
(* answered by an empty page without a next one.                           *)
(***************************************************************************)
\* Lines 367-374: the line items that are collected
ItemSells(item) ==
    /\ item.variant
    /\ item.barcode # << >>
    /\ item.product
    /\ StartsWith(item.barcode, << 9, 7, 8 >>) \/ StartsWith(item.barcode, << 9, 7, 9 >>)

\* Lines 375-382
SaleRecord(order, item) ==
    [order_id |-> order.id, barcode |-> item.barcode, title |-> "Title",
     quantity |-> item.quantity]

\* The records of an order, were cancelled orders not skipped.
OrderRecordsWithCancelled(order) ==
    LET sold == SelectSeq(order.items, ItemSells)
    IN  [i \in 1..Len(sold) |-> SaleRecord(order, sold[i])]

\* Lines 357-382 for one order
OrderRecords(order) ==
    IF order.cancelled THEN << >>
    ELSE LET sold == SelectSeq(order.items, ItemSells)
         IN  [i \in 1..Len(sold) |-> SaleRecord(order, sold[i])]

RECURSIVE OrdersRecords(_)
OrdersRecords(orders) ==
    IF orders = << >> THEN << >>
    ELSE OrderRecords(Head(orders)) \o OrdersRecords(Tail(orders))

\* product['title'] raises KeyError
PageRaises(page) ==
    \E i \in 1..Len(page.orders) :
        /\ ~page.orders[i].cancelled
        /\ \E j \in 1..Len(page.orders[i].items) :
              ItemSells(page.orders[i].items[j]) /\ ~page.orders[i].items[j].titled

\* Lines 347-387 from the query of page k on.  The outcome is "return",
\* "caught" (an exception reached the handler) or "hangs" (a page without
\* orders announces a next page, so the same query is sent for ever).
RECURSIVE SalesFrom(_, _, _)
SalesFrom(pages, k, sales) ==
    IF k > Len(pages) THEN [kind |-> "return", sales |-> sales, fetched |-> k - 1]
    ELSE LET r == RunQueryWithRetries(pages[k], DefaultMaxRetries)
         IN  IF r.kind = "raise" \/ PageRaises(r.data)
             THEN [kind |-> "caught", sales |-> << >>,
                   fetched |-> IF r.kind = "raise" THEN k - 1 ELSE k]
             ELSE IF ~r.data.hasNextPage
             THEN [kind |-> "return", sales |-> sales \o OrdersRecords(r.data.orders),
                   fetched |-> k]
             ELSE IF r.data.orders = << >>
             THEN [kind |-> "hangs", sales |-> << >>, fetched |-> k]
             ELSE SalesFrom(pages, k + 1, sales \o OrdersRecords(r.data.orders))

\* ShopifyConnector.get_preorder_sales: [kind, sales, fetched]
GetPreorderSales(pages) == SalesFrom(pages, 1, << >>)

EndsWith(s, p) == Len(s) >= Len(p) /\ SubSeq(s, Len(s) - Len(p) + 1, Len(s)) = p

\* a < b for Python str
RECURSIVE LexLess(_, _)
LexLess(a, b) ==
    IF a = << >> THEN b # << >>
    ELSE IF b = << >> THEN FALSE
    ELSE IF Head(a) # Head(b) THEN Head(a) < Head(b)
    ELSE LexLess(Tail(a), Tail(b))

EmptyPending ==
    Dict([pending_releases |-> << >>, error_cases |-> << >>, total_quantity |-> 0])

\* DataService._get_test_pending_releases
TestPendingReleases(now) ==
    Dict([pending_releases |->
             << [isbn |-> << 9, 7, 8, 0, 2, 6, 2, 5, 5, 1, 3, 1, 1 >>,
                 title |-> "Modern Chinese Foodways", quantity |-> 2,
                 original_pub_date |-> "2025-03-03", overridden_pub_date |-> None,
                 reason |-> "No longer in preorder status"],
                [isbn |-> << 9, 7, 8, 4, 7, 5, 6, 2, 5, 6, 5, 2, 2 >>,
                 title |-> "Fishes of Edo: A Guide to Classical Japanese Fishes",
                 quantity |-> 10,
                 original_pub_date |-> "2025-03-04", overridden_pub_date |-> None,
                 reason |-> "No longer in preorder status"] >>,
          error_cases |-> << >>,
          total_quantity |-> 12,
          run_date |-> Strftime(now),
          total_pending_books |-> 2])

\* json.load of an "object" or "array" content
ParseJson(content) ==
    IF content.kind = "object"
    THEN Dict([pending_releases |-> << >>, error_cases |-> << >>,
               total_quantity |-> content.q])
    ELSE List(<< >>)

IsPendingName(name) == StartsWith(name, PendingPrefix) /\ EndsWith(name, JsonSuffix)

\* Lines 101-102
PendingFiles(dir) == {name \in DOMAIN dir.files : IsPendingName(name)}

LatestByMtime(dir) ==
    CHOOSE a \in PendingFiles(dir) : \A b \in PendingFiles(dir) :
        \/ dir.files[b].mtime < dir.files[a].mtime
        \/ dir.files[b].mtime = dir.files[a].mtime /\ (b = a \/ LexLess(b, a))

\* Lines 109-110: sort(reverse=True), then [0]
LatestName(dir) ==
    CHOOSE a \in PendingFiles(dir) : \A b \in PendingFiles(dir) : b = a \/ LexLess(b, a)

PendingBody(f, dir, io) ==
    IF ~dir.exists \/ io = "listdir" THEN Raise("OSError", f, FALSE, {"audit"})
    ELSE IF PendingFiles(dir) = {} THEN Return(EmptyPending, f, FALSE, {"audit"})
    ELSE LET content == dir.files[LatestName(dir)].content
         IN  IF io = "read" THEN Raise("OSError", f, FALSE, {"audit"})
             ELSE IF content.kind = "malformed"
             THEN Raise("JSONDecodeError", f, FALSE, {"audit"})
             ELSE IF content.kind # "object"
             THEN Raise("AttributeError", f, FALSE, {"audit"})
             ELSE Return(ParseJson(content), f, FALSE, {"audit"})

PendingFallsBackToOlder(tm, f, dir, now, io) ==
    LET body == PendingBody(f, dir, io)
        good == {n \in PendingFiles(dir) : dir.files[n].content.kind = "object"}
    IN  IF tm THEN Return(TestPendingReleases(now), f, FALSE, {})
        ELSE IF body.exc # "none" /\ dir.exists /\ io = "ok" /\ good # {}
        THEN Return(ParseJson(dir.files[CHOOSE n \in good : TRUE].content), f, FALSE,
                    {"audit"})
        ELSE Catch(body, EmptyPending)

GetPendingReleases(tm, f, dir, now, io) ==
    IF tm THEN Return(TestPendingReleases(now), f, FALSE, {})
    ELSE Catch(PendingBody(f, dir, io), EmptyPending)

(***************************************************************************)
(* DataService.get_preorder_tracking_data.                                 *)
(***************************************************************************)
TrackingColumns == << "ISBN", "Title", "Pub Date", "Quantity", "Status" >>

EmptyTracking == Table(TrackingColumns, << >>)

\* What pd.read_csv makes of a readable tracking file.
TrackingRows ==
    Table(TrackingColumns,
          << [ISBN |-> IntCell(978), Title |-> "On file", PubDate |-> None,
              Quantity |-> 1, Status |-> "Preorder"] >>)

\* DataService._get_test_preorder_tracking_data
TestTrackingData(now) ==
    Table(TrackingColumns,
          << [ISBN |-> SampleIsbn(0), Title |-> "Future Release Book",
              PubDate |-> PubDate(now + 30), Quantity |-> 5, Status |-> "Preorder"],
             [ISBN |-> SampleIsbn(1), Title |-> "Recent Release Book",
              PubDate |-> PubDate(now - 3), Quantity |-> 3, Status |-> "Preorder"],
             [ISBN |-> SampleIsbn(2), Title |-> "Past Due Book",
              PubDate |-> PubDate(now - 60), Quantity |-> 8, Status |-> "Preorder"],
             [ISBN |-> SampleIsbn(3), Title |-> "Missing Date Book",
              PubDate |-> None, Quantity |-> 2, Status |-> "Preorder"],
             [ISBN |-> SampleIsbn(4), Title |-> "Malformed Date Book",
              PubDate |-> PubText("Coming Soon"), Quantity |-> 4,
              Status |-> "Preorder"] >>)

TrackingBody(f, trk, io) ==
    IF trk = "missing" THEN Return(EmptyTracking, f, FALSE, {"tracking"})
    ELSE IF io = "read" THEN Raise("OSError", f, FALSE, {"tracking"})
    ELSE IF trk = "garbled" THEN Raise("ParserError", f, FALSE, {"tracking"})
    ELSE Return(TrackingRows, f, FALSE, {"tracking"})

GetPreorderTrackingData(tm, f, trk, now, io) ==
    IF tm THEN Return(TestTrackingData(now), f, FALSE, {})
    ELSE Catch(TrackingBody(f, trk, io), EmptyTracking)

(***************************************************************************)
(* DataService.get_approval_status.  An issue is what the issue tracker    *)
(* sent: keys is FALSE when a key the loop reads is missing, body is None  *)
(* or a str.  The text of a body is a sequence of ASCII codes.             *)
(***************************************************************************)
Newline == 10
Space == 32
Slash == 47
Zero == 48
UpperX == 88
LBracket == 91
RBracket == 93
LetterA == 97
LowerX == 120
Bar == 124

Str(s) == [str |-> s]

At(s, i, c) == i <= Len(s) /\ s[i] = c

IsDigitAt(s, i) == i <= Len(s) /\ s[i] >= Zero /\ s[i] <= Zero + 9

\* \s* from position i: the position of the first character that is no space
RECURSIVE SkipSpaces(_, _)
SkipSpaces(s, i) == IF At(s, i, Space) THEN SkipSpaces(s, i + 1) ELSE i

\* [0-9]+ from position i: the position after the run of digits
RECURSIVE DigitsEnd(_, _)
DigitsEnd(s, i) == IF IsDigitAt(s, i) THEN DigitsEnd(s, i + 1) ELSE i

\* s.split(c)
RECURSIVE SplitOn(_, _)
SplitOn(s, c) ==
    IF \A i \in 1..Len(s) : s[i] # c THEN << s >>
    ELSE LET i == MinOf({j \in 1..Len(s) : s[j] = c})
         IN  << SubSeq(s, 1, i - 1) >> \o SplitOn(SubSeq(s, i + 1, Len(s)), c)

\* issue_body.split('\n')
SplitLines(s) == SplitOn(s, Newline)

\* r'\|\s*\[x\]' with re.IGNORECASE, matched at position i
BoxAt(s, i) ==
    LET a == SkipSpaces(s, i + 1)
    IN  /\ At(s, i, Bar)
        /\ At(s, a, LBracket)
        /\ At(s, a + 1, LowerX) \/ At(s, a + 1, UpperX)
        /\ At(s, a + 2, RBracket)

\* r'\|\s*\[x\]\s*\|\s*([0-9]+)' matched at position i: group 1, or '' for no match
GroupAt(s, i) ==
    LET a == SkipSpaces(s, i + 1)
        b == SkipSpaces(s, a + 3)
        c == SkipSpaces(s, b + 1)
        d == DigitsEnd(s, c)
    IN  IF BoxAt(s, i) /\ At(s, b, Bar) /\ d > c THEN SubSeq(s, c, d - 1) ELSE << >>

LineIsbnsOfLastBox(line) ==
    LET hits == {i \in 1..Len(line) : GroupAt(line, i) # << >>}
        last == CHOOSE i \in hits : \A j \in hits : j <= i
        group == GroupAt(line, last)
    IN  IF hits # {} THEN << [k \in 1..Len(group) |-> group[k] - Zero] >> ELSE << >>

\* Lines 281-286: what one line adds to approved_isbns.  re.search takes the
\* leftmost match.
LineIsbns(line) ==
    LET hits == {i \in 1..Len(line) : GroupAt(line, i) # << >>}
        group == GroupAt(line, MinOf(hits))
    IN  IF (\E i \in 1..Len(line) : BoxAt(line, i)) /\ hits # {}
        THEN << [k \in 1..Len(group) |-> group[k] - Zero] >>
        ELSE << >>

\* DataService._parse_issue_body
ParseIssueBody(body) ==
    LET lines == SplitLines(body.str)
        RECURSIVE Scan(_)
        Scan(n) == IF n = 0 THEN << >> ELSE Scan(n - 1) \o LineIsbns(lines[n])
    IN  Scan(Len(lines))

(***************************************************************************)
(* GitHubConnector.  The server is a script of responses: a response is   *)
(* [raises, status, body]; raises is TRUE when requests.get/post/patch or  *)
(* response.json() raises, body is the decoded JSON.                       *)
(***************************************************************************)
PerPageCap == 100

Response(raises, status, body) == [raises |-> raises, status |-> status, body |-> body]

\* Lines 83-103 from the request of one page on; the outcome is
\* [raised, issues, requests].
RECURSIVE IssuesFrom(_, _, _, _, _)
IssuesFrom(script, limit, per_page, issues, page) ==
    IF Len(issues) < limit
    THEN LET response == script[page]
             got == issues \o response.body
         IN  IF response.raises
             THEN [raised |-> TRUE, issues |-> issues, requests |-> page]
             ELSE IF response.status # 200 \/ response.body = << >>
             THEN [raised |-> FALSE, issues |-> issues, requests |-> page]
             ELSE IF Len(response.body) < per_page
             THEN [raised |-> FALSE, issues |-> got, requests |-> page]
             ELSE IssuesFrom(script, limit, per_page, got, page + 1)
    ELSE [raised |-> FALSE, issues |-> issues, requests |-> page - 1]

\* get_issues, were the list not cut to limit at line 106.
GetIssuesUntruncated(script, limit) ==
    LET per_page == IF limit < PerPageCap THEN limit ELSE PerPageCap
        r == IssuesFrom(script, limit, per_page, << >>, 1)
    IN  [val |-> IF r.raised THEN << >> ELSE r.issues,
         requests |-> r.requests, per_page |-> per_page]

\* GitHubConnector.get_issues: [val, requests, per_page]
GetIssues(script, limit) ==
    LET per_page == IF limit < PerPageCap THEN limit ELSE PerPageCap
        r == IssuesFrom(script, limit, per_page, << >>, 1)
    IN  [val |-> IF r.raised THEN << >> ELSE Slice(r.issues, limit),
         requests |-> r.requests, per_page |-> per_page]

\* GitHubConnector.get_issue
GetIssue(response) ==
    IF response.raises \/ response.status # 200 THEN None ELSE response.body

\* GitHubConnector.create_issue
CreateIssue(response) ==
    IF response.raises \/ response.status # 201 THEN None ELSE response.body

\* GitHubConnector.add_comment
AddComment(response) ==
    IF response.raises \/ response.status # 201 THEN None ELSE response.body

\* What get_issue, create_issue or add_comment makes of the server's first answer.
AnswerOf(op, response) ==
    CASE op = "get_issue" -> GetIssue(response)
      [] op = "create_issue" -> CreateIssue(response)
      [] op = "add_comment" -> AddComment(response)

\* The operation, were a failed request sent once more.
RequestRepeated(op, script) ==
    IF AnswerOf(op, script[1]) = None
    THEN [val |-> AnswerOf(op, script[2]), requests |-> 2]
    ELSE [val |-> AnswerOf(op, script[1]), requests |-> 1]

\* get_issue, create_issue and add_comment against a server whose answers to
\* successive requests are script[1], script[2], ...: [val, requests].
RequestOnce(op, script) == [val |-> AnswerOf(op, script[1]), requests |-> 1]

\* GitHubConnector.update_issue: [val, requests]; has_data is FALSE when no
\* field to update was given
UpdateIssue(has_data, response) ==
    IF ~has_data THEN [val |-> None, requests |-> 0]
    ELSE [val |-> IF response.raises \/ response.status # 200 THEN None
                  ELSE response.body,
          requests |-> 1]

ApprovalRecord(issue) ==
    [issue_number |-> issue.number, title |-> issue.title,
     created_at |-> issue.created_at, status |-> issue.state,
     approved_isbns |-> ParseIssueBody(issue.body), url |-> issue.html_url]

TestApprovalStatusDated ==
    List(<< [issue_number |-> 123,
             title |-> "Preorder Approvals for this week",
             created_at |-> Strftime(today), status |-> "open",
             approved_isbns |-> << >>,
             url |-> "https://github.com/example/repo/issues/123"] >>)

\* DataService._get_test_approval_status
TestApprovalStatus ==
    List(<< [issue_number |-> 123,
             title |-> "Preorder Approvals for Week of March 10, 2025",
             created_at |-> "2025-03-10T12:00:00Z", status |-> "open",
             approved_isbns |-> << << 9, 7, 8, 0, 2, 6, 2, 5, 5, 1, 3, 1, 1 >>,
                                   << 9, 7, 8, 4, 7, 5, 6, 2, 5, 6, 5, 2, 2 >> >>,
             url |-> "https://github.com/example/repo/issues/123"],
            [issue_number |-> 120,
             title |-> "Preorder Approvals for Week of March 3, 2025",
             created_at |-> "2025-03-03T12:00:00Z", status |-> "closed",
             approved_isbns |-> << << 9, 7, 8, 1, 2, 3, 4, 5, 6, 7, 8, 9, 5 >>,
                                   << 9, 7, 8, 1, 2, 3, 4, 5, 6, 7, 8, 9, 6 >> >>,
             url |-> "https://github.com/example/repo/issues/120"] >>)

ApprovalBody(f, answer) ==
    LET issues == GetIssues(<< answer >>, PerPageCap).val
    IN  IF \E i \in 1..Len(issues) : ~issues[i].keys
        THEN Raise("KeyError", f, TRUE, {})
        ELSE IF \E i \in 1..Len(issues) : issues[i].body = None
        THEN Raise("AttributeError", f, TRUE, {})
        ELSE Return(List([i \in 1..Len(issues) |-> ApprovalRecord(issues[i])]),
                    f, TRUE, {})

GetApprovalStatus(tm, f, answer) ==
    IF tm THEN Return(TestApprovalStatus, f, FALSE, {})
    ELSE Catch(ApprovalBody(f, answer), List(<< >>))

(***************************************************************************)
(* FileIO, the local file store.  Its CSV operations are modelled on the   *)
(* overrides file and its JSON and directory operations on the audit       *)
(* directory.  io names the file-system call of the operation that raises  *)
(* OSError ("ok": none does).  An outcome is [exc, val, file, audit].      *)
(***************************************************************************)
Done(v, f, dir) == [exc |-> "none", val |-> v, file |-> f, audit |-> dir]

Fail(e, f, dir) == [exc |-> e, val |-> None, file |-> f, audit |-> dir]

\* os.path.exists(filepath) for a file of the directory
InDir(dir, name) == dir.exists /\ name \in DOMAIN dir.files

\* json.dump(data, f): the text written, "malformed" when data cannot be serialised
DumpJson(data) ==
    IF "dict" \in DOMAIN data
    THEN [kind |-> "object", q |-> data.dict.total_quantity]
    ELSE IF "list" \in DOMAIN data THEN [kind |-> "array", q |-> 0]
    ELSE [kind |-> "malformed", q |-> 0]

\* The modification time of a file written now: later than the others'.
NextMtime(dir) ==
    IF DOMAIN dir.files = {} THEN 1
    ELSE 1 + (CHOOSE t \in {dir.files[n].mtime : n \in DOMAIN dir.files} :
                 \A n \in DOMAIN dir.files : dir.files[n].mtime <= t)

\* The directory after a file of that name and content was written.
WithFile(dir, name, entry) ==
    [exists |-> TRUE,
     files |-> [n \in DOMAIN dir.files \cup {name} |->
                  IF n = name THEN entry ELSE dir.files[n]]]

\* FileIO.read_json
FileIOReadJson(f, dir, name, default, io) ==
    IF ~InDir(dir, name) THEN Done(default, f, dir)
    ELSE IF io = "open" \/ dir.files[name].content.kind = "malformed"
    THEN Done(default, f, dir)
    ELSE Done(ParseJson(dir.files[name].content), f, dir)

\* FileIO.write_json: os.makedirs runs before the try
FileIOWriteJson(f, dir, name, data, io) ==
    IF io = "makedirs" THEN Fail("OSError", f, dir)
    ELSE IF io = "open" THEN Done(Bool(FALSE), f, [dir EXCEPT !.exists = TRUE])
    ELSE Done(Bool(DumpJson(data).kind # "malformed"), f,
              WithFile(dir, name, [mtime |-> NextMtime(dir), content |-> DumpJson(data)]))

\* An empty file: pd.read_csv raises EmptyDataError on it.
EmptyFile == [exists |-> TRUE, header |-> << >>, rows |-> << >>]

\* FileIO.read_csv
FileIOReadCsv(f, dir, default, io) ==
    IF ~f.exists THEN Done(default, f, dir)
    ELSE IF io = "open" \/ f = EmptyFile THEN Done(default, f, dir)
    ELSE Done(ReadCsv(f), f, dir)

\* FileIO.write_csv: os.makedirs runs before the try
FileIOWriteCsv(f, dir, df, io) ==
    IF io = "makedirs" THEN Fail("OSError", f, dir)
    ELSE IF io = "open" THEN Done(Bool(FALSE), f, dir)
    ELSE Done(Bool(TRUE), ToCsv(df), dir)

\* FileIO.append_csv: os.makedirs and os.path.getsize run before the try.
\* A row is [extra, row]: extra is TRUE when the dict has a key that is no
\* field name, which csv.DictWriter refuses with ValueError after it wrote
\* the rows before it.
FileIOAppendCsv(f, dir, data, fieldnames, io) ==
    LET file_exists == f.exists /\ f # EmptyFile
        names == IF fieldnames # << >> THEN fieldnames
                 ELSE IF file_exists THEN f.header
                 ELSE OverrideColumns
        opened == IF file_exists THEN f
                  ELSE [exists |-> TRUE, header |-> names, rows |-> << >>]
        bad == {i \in 1..Len(data) : data[i].extra}
        n == IF bad = {} THEN Len(data) ELSE MinOf(bad) - 1
    IN  IF io = "makedirs" THEN Fail("OSError", f, dir)
        ELSE IF f.exists /\ io = "inspect" THEN Fail("OSError", f, dir)
        ELSE IF fieldnames = << >> /\ ~file_exists /\ data = << >>
        THEN Done(Bool(FALSE), f, dir)
        ELSE IF io = "open" THEN Done(Bool(FALSE), f, dir)
        ELSE Done(Bool(bad = {}),
                  [opened EXCEPT !.rows = @ \o [i \in 1..n |-> data[i].row]], dir)

\* file_info.sort(key=mtime, reverse=True): stable, so files of one
\* modification time keep the order os.listdir gave them.
RECURSIVE SortNewestFirst(_, _)
SortNewestFirst(dir, names) ==
    IF names = << >> THEN << >>
    ELSE LET x == names[Len(names)]
             before == SortNewestFirst(dir, SubSeq(names, 1, Len(names) - 1))
             keep == {i \in 1..Len(before) :
                        dir.files[before[i]].mtime >= dir.files[x].mtime}
         IN  SubSeq(before, 1, Cardinality(keep)) \o << x >>
             \o SubSeq(before, Cardinality(keep) + 1, Len(before))

\* [f for f in files if ...]
RECURSIVE Filter(_, _, _)
Filter(names, prefix, suffix) ==
    IF names = << >> THEN << >>
    ELSE (IF StartsWith(Head(names), prefix) /\ EndsWith(Head(names), suffix)
          THEN << Head(names) >> ELSE << >>) \o Filter(Tail(names), prefix, suffix)

\* FileIO.get_recent_files; listing is what os.listdir returns, and an absent
\* prefix or suffix is ''.
FileIOGetRecentFiles(f, dir, listing, prefix, suffix, count, io) ==
    IF ~dir.exists THEN Done(List(<< >>), f, dir)
    ELSE IF io = "listdir" THEN Done(List(<< >>), f, dir)
    ELSE LET files == Filter(listing, prefix, suffix)
         IN  IF io = "inspect" /\ files # << >> THEN Done(List(<< >>), f, dir)
             ELSE Done(List(Slice(SortNewestFirst(dir, files), count)), f, dir)

TwoDigits(n) == << Zero + (n \div 10), Zero + (n % 10) >>

\* datetime.now().strftime('%Y%m%d%H%M%S'), the time of day being midnight
Timestamp(now) ==
    LET d == Strftime(now)
    IN  TwoDigits(d.y \div 100) \o TwoDigits(d.y % 100) \o TwoDigits(d.m)
        \o TwoDigits(d.d) \o TwoDigits(0) \o TwoDigits(0) \o TwoDigits(0)

Dot == 46
Underscore == 95

\* os.path.splitext(filename): the position of the extension's dot, or
\* Len + 1 for a name without extension
ExtAt(name) ==
    LET dots == {i \in 2..Len(name) : name[i] = Dot}
    IN  IF dots = {} THEN Len(name) + 1
        ELSE CHOOSE i \in dots : \A j \in dots : j <= i

BackupName(name, now) ==
    SubSeq(name, 1, ExtAt(name) - 1) \o << Underscore >> \o Timestamp(now)
    \o SubSeq(name, ExtAt(name), Len(name))

\* FileIO.backup_file with backup_dir the file's own directory
FileIOBackupFile(f, dir, name, now, io) ==
    IF ~InDir(dir, name) THEN Done(None, f, dir)
    ELSE IF io \in {"makedirs", "copy"} THEN Done(None, f, dir)
    ELSE Done(Str(BackupName(name, now)), f,
              WithFile(dir, BackupName(name, now), dir.files[name]))

(***************************************************************************)
(* Construction: DataService.__init__ and the connectors' __init__.        *)
(***************************************************************************)
\* 'if not <setting>': a setting that is absent or the empty string
Unset(v) == v \in {"absent", "empty"}

\* ShopifyConnector.__init__: TRUE when it raises ValueError
ShopifyInitRaises(e) == Unset(e.SHOP_URL) \/ Unset(e.SHOPIFY_ACCESS_TOKEN)

DefaultRepository ==    \* 'owner/repo'
    << 111, 119, 110, 101, 114, Slash, 114, 101, 112, 111 >>

\* os.getenv('GITHUB_REPOSITORY', 'owner/repo')
Repository(e) ==
    IF e.GITHUB_REPOSITORY = None THEN DefaultRepository ELSE e.GITHUB_REPOSITORY.str

GitHubInitChecksTokenOnly(e) == Unset(e.GITHUB_TOKEN)

\* GitHubConnector.__init__: TRUE when it raises ValueError, for the missing
\* token or because the repository does not unpack into two parts.
GitHubInitRaises(e) ==
    Unset(e.GITHUB_TOKEN) \/ Len(SplitOn(Repository(e), Slash)) # 2

ConnectorsBuiltAlways(tm, e) ==
    IF ShopifyInitRaises(e) THEN [ok |-> FALSE, connectors |-> {}]
    ELSE IF GitHubInitRaises(e) THEN [ok |-> FALSE, connectors |-> {"shopify"}]
    ELSE [ok |-> TRUE, connectors |-> {"shopify", "github"}]

\* Lines 55-59: the connectors built, the commerce connector first; ok is
\* FALSE when a constructor raised.
DataServiceInit(tm, e) ==
    IF tm THEN [ok |-> TRUE, connectors |-> {}]
    ELSE IF ShopifyInitRaises(e) THEN [ok |-> FALSE, connectors |-> {}]
    ELSE IF GitHubInitRaises(e) THEN [ok |-> FALSE, connectors |-> {"shopify"}]
    ELSE [ok |-> TRUE, connectors |-> {"shopify", "github"}]

(***************************************************************************)
(* Inputs.                                                                 *)
(***************************************************************************)
\* ISBNs typed or picked on the override page: '7', '07' and '7X'.
IsbnInputs == {<< 7 >>, << 0, 7 >>, << 7, 10 >>}

DateInputs == {Strftime(Day0 + 10), Strftime(Day0 + 20)}

Limits == {2, 100}

SeedRow(isbn) ==
    [ISBN |-> isbn, Corrected_Pub_Date |-> Strftime(Day0 - 30),
     Notes |-> "Checked with publisher", Updated_At |-> Strftime(Day0 - 30)]

FileOf(rows) == [exists |-> TRUE, header |-> OverrideColumns, rows |-> rows]

\* The overrides files an installation starts with: none, or one without a
\* duplicate ISBN.
InitFiles == {NoFile, FileOf(<< >>)} \cup {FileOf(<< SeedRow(k) >>) : k \in IsbnInputs}

Edges == {[ok |-> TRUE, id |-> "gid://shopify/Product/1"], [ok |-> FALSE, id |-> "-"]}

EdgeLists == UNION {[1..n -> Edges] : n \in 0..MaxProducts}

Payloads == {[coll |-> "null", edges |-> << >>]}
            \cup {[coll |-> "found", edges |-> e] : e \in EdgeLists}

Answer(st, data) == [st |-> st, data |-> IF st = "ok" THEN data ELSE None]

\* The scripts one facade call may meet: each answer succeeds or fails, the
\* failures of one script in one way, and the collection is in one state.
FacadeScripts ==
    {[i \in 1..DefaultMaxRetries |-> Answer(IF oks[i] THEN "ok" ELSE how, data)] :
        oks \in [1..DefaultMaxRetries -> BOOLEAN],
        how \in ResponseKinds \ {"ok"}, data \in Payloads}

QuietScripts ==
    {[i \in 1..DefaultMaxRetries |-> Answer(st, [coll |-> "null", edges |-> << >>])] :
        st \in ResponseKinds}

\* The scripts of a direct run_query_with_retries call: each answer has its own data.
RetryAnswers ==
    {Answer(st, None) : st \in ResponseKinds \ {"ok"}}
    \cup {Answer("ok", [coll |-> "found", edges |-> e]) :
            e \in {<< >>, << [ok |-> TRUE, id |-> "gid://shopify/Product/1"] >>}}

RetryScripts == [1..MaxScript -> RetryAnswers]

GoodItem == [variant |-> TRUE, product |-> TRUE, titled |-> TRUE,
             barcode |-> << 9, 7, 8, 1 >>, quantity |-> 1]

\* The line items of an order: an item may miss its variant, its product, its
\* barcode or its title, or carry a barcode of another prefix.
ItemLists ==
    {<< >>,
     << GoodItem, [GoodItem EXCEPT !.barcode = << 1, 9, 7, 8 >>, !.quantity = 2],
        [GoodItem EXCEPT !.barcode = << 9, 7, 9, 0 >>, !.quantity = 3] >>,
     << [GoodItem EXCEPT !.variant = FALSE, !.barcode = << >>],
        [GoodItem EXCEPT !.barcode = << >>],
        [GoodItem EXCEPT !.product = FALSE] >>,
     << GoodItem, [GoodItem EXCEPT !.titled = FALSE] >>}

Order(id, cancelled, items) == [id |-> id, cancelled |-> cancelled, items |-> items]

\* The orders of page k.
OrderLists(k) ==
    {<< >>,
     << Order(10 * k + 1, TRUE, << GoodItem >>), Order(10 * k + 2, FALSE, << >>) >>}
    \cup {<< Order(10 * k + 1, FALSE, l) >> : l \in ItemLists \ {<< >>}}
    \cup {<< Order(10 * k + 1, TRUE, l), Order(10 * k + 2, FALSE, l) >> :
            l \in {m \in ItemLists : Len(m) = 3 /\ m[1] = GoodItem}}
    \cup {<< Order(10 * k + 1, TRUE, l) >> : l \in {m \in ItemLists : Len(m) = 2}}

OrderPages(k) == [orders : OrderLists(k), hasNextPage : BOOLEAN]

\* The scripts that answer the query of page k: every attempt fails, or the
\* page is served at the first attempt, or (a page of one order) at the
\* second.
PageScripts(k) ==
    {[i \in 1..DefaultMaxRetries |-> Answer("non200", None)]}
    \cup {[i \in 1..DefaultMaxRetries |-> Answer("ok", page)] : page \in OrderPages(k)}
    \cup {[i \in 1..DefaultMaxRetries |->
             IF i = 1 THEN Answer("errors", None) ELSE Answer("ok", page)] :
            page \in {q \in OrderPages(k) :
                        q.hasNextPage /\ Len(q.orders) = 1 /\ Len(q.orders[1].items) = 3
                        /\ q.orders[1].items[1] = GoodItem}}

RECURSIVE ScriptsOfPages(_)
ScriptsOfPages(k) ==
    IF k = 0 THEN {<< >>}
    ELSE {Append(s, script) : s \in ScriptsOfPages(k - 1), script \in PageScripts(k)}

SalesScripts == ScriptsOfPages(MaxPages)

\* The overrides files of a page load: one may hold the barcode of the live
\* product.
ListingFiles == InitFiles \cup {FileOf(<< SeedRow(<< 9, 7, 9 >>) >>)}

\* What is typed in 'Search by Title or ISBN': nothing, or the end of an ISBN.
SearchTerms == {<< >>, << 8, 9, 2 >>}

\* The connector scripts of a page load: the first attempt is served, or none is.
PageLoadScripts ==
    {script \in FacadeScripts :
        \/ script[1].st = "ok"
        \/ \A i \in 1..DefaultMaxRetries : script[i].st = "non200"}

PendingName(mid) == PendingPrefix \o mid \o JsonSuffix

JanName == PendingName(<< 50, 48, 50, 53, 45, 48, 49, 45, 48, 49 >>)   \* 2025-01-01
FebName == PendingName(<< 50, 48, 50, 53, 45, 48, 50, 45, 48, 49 >>)   \* 2025-02-01
TxtName == PendingPrefix \o << 57, 46, 116, 120, 116 >>                \* pending_releases_9.txt
OtherName == << 122, 122 >> \o JsonSuffix                              \* zz.json

Contents == {[kind |-> "object", q |-> 1], [kind |-> "object", q |-> 2],
             [kind |-> "array", q |-> 0], [kind |-> "malformed", q |-> 0]}

Entries == {[mtime |-> t, content |-> c] : t \in 1..2, c \in Contents}

\* Every directory over the four names; the two pending files differ in content.
AuditDirs ==
    {[exists |-> FALSE, files |-> << >>]}
    \cup {[exists |-> TRUE, files |-> fs] :
            fs \in UNION {[names -> Entries] :
                            names \in SUBSET {JanName, FebName, TxtName, OtherName}}}

NoAudit == [exists |-> TRUE, files |-> << >>]

IssueOf(n, st, keys, body) ==
    [number |-> n, title |-> "Preorder approvals", created_at |-> "2025-03-10T12:00:00Z",
     state |-> st, html_url |-> "https://github.com/o/r/issues", keys |-> keys,
     body |-> body]

CheckedCell == << LBracket, LowerX, RBracket >>                  \* [x]
CheckedUpperCell == << LBracket, UpperX, RBracket >>             \* [X]
UncheckedCell == << LBracket, Space, RBracket >>                 \* [ ]
IsbnCell ==                                                      \* 9780262551311
    << Zero + 9, Zero + 7, Zero + 8, Zero, Zero + 2, Zero + 6, Zero + 2, Zero + 5,
       Zero + 5, Zero + 1, Zero + 3, Zero + 1, Zero + 1 >>
ShortCell == << Zero + 9, Zero + 7, Zero + 9 >>                  \* 979
WordCell == << LetterA >>                                        \* a
MixedCell == << Zero + 9, Zero + 7, LetterA >>                   \* 97a

\* The rows of an approval table, as the cells between the bars.
RowCells ==
    { << CheckedCell, IsbnCell, WordCell >>,
      << CheckedUpperCell, ShortCell >>,
      << CheckedCell, ShortCell, CheckedCell, IsbnCell >>,
      << UncheckedCell, IsbnCell, WordCell >>,
      << UncheckedCell, ShortCell >>,
      << ShortCell, WordCell >>,
      << WordCell >>,
      << >>,
      << CheckedCell, WordCell, ShortCell >>,
      << CheckedCell, MixedCell >>,
      << UncheckedCell, ShortCell, CheckedCell, IsbnCell >>,
      << WordCell, CheckedCell, ShortCell >> }

\* A row and the number of spaces around each of its cells.
BodyRows == [cells : RowCells, pad : {0, 1}]

RECURSIVE RenderCells(_, _)
RenderCells(cells, pad) ==
    IF cells = << >> THEN << >>
    ELSE [i \in 1..pad |-> Space] \o Head(cells) \o [i \in 1..pad |-> Space]
         \o << Bar >> \o RenderCells(Tail(cells), pad)

\* '| cell | cell |', and '' for a row of no cells
RenderRow(row) ==
    IF row.cells = << >> THEN << >> ELSE << Bar >> \o RenderCells(row.cells, row.pad)

\* '\n'.join(rows)
RECURSIVE JoinLines(_)
JoinLines(rows) ==
    IF rows = << >> THEN << >>
    ELSE IF Len(rows) = 1 THEN RenderRow(rows[1])
    ELSE RenderRow(Head(rows)) \o << Newline >> \o JoinLines(Tail(rows))

Bodies == UNION {[1..n -> BodyRows] : n \in 0..MaxBodyLines}

CheckedLine == [cells |-> << CheckedCell, ShortCell >>, pad |-> 1]
OpenLine == [cells |-> << UncheckedCell, IsbnCell >>, pad |-> 1]

Issues == {IssueOf(1, "open", TRUE, Str(JoinLines(<< CheckedLine, OpenLine >>))),
           IssueOf(2, "closed", TRUE, None),
           IssueOf(3, "open", FALSE, Str(<< >>))}

\* The responses to the one request of get_approval_status.
IssueAnswers ==
    {Response(TRUE, 0, << >>), Response(FALSE, 404, << >>)}
    \cup {Response(FALSE, 200, i) :
            i \in UNION {[1..n -> Issues] : n \in 0..MaxIssues}}

\* A page of the issue list: none, one or per_page issues, numbered by page.
IssuePage(k, n) == [i \in 1..n |-> [number |-> PerPageCap * (k - 1) + i]]

PageAnswers(k) ==
    {Response(TRUE, 0, << >>), Response(FALSE, 404, << >>)}
    \cup {Response(FALSE, 200, IssuePage(k, n)) : n \in {0, 1, PerPageCap}}

IssueScripts ==
    {s \in [1..MaxPages -> UNION {PageAnswers(k) : k \in 1..MaxPages}] :
        \A k \in 1..MaxPages : s[k] \in PageAnswers(k)}

IssueLimits == {0, 1, 2, PerPageCap, PerPageCap + 50}

IssueResponses ==
    {Response(TRUE, 0, None)}
    \cup {Response(FALSE, st, [number |-> 7]) : st \in {200, 201, 404}}

\* The server's answers to a first and to a would-be second request.
IssueAttempts == [1..2 -> IssueResponses]

\* The directories the file store's JSON operations work on.
StoreDirs ==
    {[exists |-> FALSE, files |-> << >>], NoAudit,
     [exists |-> TRUE,
      files |-> [n \in {JanName, FebName} |->
                   IF n = JanName
                   THEN [mtime |-> 1, content |-> [kind |-> "object", q |-> 1]]
                   ELSE [mtime |-> 2, content |-> [kind |-> "malformed", q |-> 0]]]],
     [exists |-> TRUE,
      files |-> [n \in {JanName, FebName, TxtName} |->
                   IF n = TxtName
                   THEN [mtime |-> 2, content |-> [kind |-> "array", q |-> 0]]
                   ELSE [mtime |-> 1, content |-> [kind |-> "object", q |-> 2]]]]}

\* The orders os.listdir may return the names of a directory in.
Listings(dir) ==
    {l \in [1..Cardinality(DOMAIN dir.files) -> DOMAIN dir.files] :
        \A i, j \in DOMAIN l : l[i] = l[j] => i = j}

StoreFiles == {NoFile, EmptyFile, FileOf(<< SeedRow(<< 7 >>) >>)}

Defaults == {None, Dict([fallback |-> TRUE])}

JsonData == {Dict([pending_releases |-> << >>, error_cases |-> << >>, total_quantity |-> 2]),
             List(<< >>), [set |-> TRUE]}

Frames == {EmptyFrame, ReadCsv(FileOf(<< SeedRow(<< 7, 10 >>) >>))}

CsvRows ==
    {<< >>, << [extra |-> FALSE, row |-> SeedRow(<< 7, 10 >>)] >>,
     << [extra |-> FALSE, row |-> SeedRow(<< 7, 10 >>)],
        [extra |-> TRUE, row |-> SeedRow(<< 0, 7 >>)] >>}

GoodRepo == << 111, Slash, 110 >>                   \* 'o/n'
NoSlashRepo == << 111, 110 >>                       \* 'on'
DeepRepo == << 97, Slash, 98, Slash, 99 >>          \* 'a/b/c'
NoNameRepo == << 111, Slash >>                      \* 'o/'

\* The environments a live service may be constructed under.
EnvChoices ==
    [SHOP_URL : {"absent", "empty", "set"},
     SHOPIFY_ACCESS_TOKEN : {"absent", "empty", "set"},
     GITHUB_TOKEN : {"absent", "empty", "set"},
     GITHUB_REPOSITORY : {None, Str(<< >>), Str(GoodRepo), Str(NoSlashRepo),
                          Str(DeepRepo), Str(NoNameRepo)}]

\* Those in which every setting is absent or has text.
TestModeEnvs ==
    {e \in EnvChoices :
        /\ "empty" \notin {e.SHOP_URL, e.SHOPIFY_ACCESS_TOKEN, e.GITHUB_TOKEN}
        /\ e.GITHUB_REPOSITORY \in {None, Str(GoodRepo), Str(NoSlashRepo), Str(DeepRepo)}}

GoodEnv == [SHOP_URL |-> "set", SHOPIFY_ACCESS_TOKEN |-> "set", GITHUB_TOKEN |-> "set",
            GITHUB_REPOSITORY |-> Str(GoodRepo)]

QueryKeys ==
    {[op |-> "get_preorder_products", limit |-> l] : l \in Limits}
    \cup {[op |-> o, limit |-> 0] :
            o \in {"get_pending_releases", "get_preorder_tracking_data",
                   "get_pub_date_overrides", "get_approval_status"}}

NoCall == [op |-> "none", key |-> None, args |-> None, exc |-> "none", val |-> None,
           io |-> "ok", pre |-> FALSE, conn |-> None, day |-> 0]

NoQuery == [script |-> << >>, max_retries |-> 0, out |-> None]

\* The threads that may each run one update_pub_date_override call, and a
\* thread that has not called yet.  A call in flight is at "read" (before
\* line 200), at "write" (holding the frame of lines 200-220, before line
\* 223) or "done".
Threads == {1, 2}

\* No get_preorder_sales call yet.  A call in flight holds the server's pages,
\* the cursor (the number of the page whose last order it names, 0 for None),
\* the sales gathered, the cursors already asked for, and whether one was
\* asked for twice.
\* No Streamlit session: the state of the session in the specifications
\* that call the service directly.
NoScreen ==
    [page |-> "none", go_to_approvals |-> FALSE, edit_pub_date |-> FALSE,
     total_pages |-> 0, matches |-> 0, shown |-> << >>]

NoSession ==
    [current_page |-> "none", test_mode |-> FALSE, toggle |-> FALSE,
     has_override_page |-> FALSE, override_page |-> 0, search_term |-> << >>,
     catalog |-> 0, nav |-> "none", screen |-> NoScreen]

NoLoop == [pc |-> "idle", pages |-> << >>, cursor |-> 0, sales |-> << >>, asked |-> {},
           repeated |-> FALSE]

\* History kept with a call: the file as it read it, whether the other call
\* had written by then, and whether its write is the latest.
Idle == [pc |-> "idle", isbn |-> << >>, date |-> Strftime(Day0), df |-> EmptyFrame,
         read |-> NoFile, sawOther |-> FALSE, last |-> FALSE]

(***************************************************************************)
(* The state machine.  One action is one whole call.                       *)
(***************************************************************************)
\* What a call that returned r leaves behind.
Finish(key, args, r, io, conn) ==
    /\ ret' = [op |-> key.op, key |-> key, args |-> args, exc |-> r.exc, val |-> r.val,
               io |-> io, pre |-> file.exists, conn |-> conn, day |-> today]
    /\ file' = r.file
    /\ net' = (net \/ r.net)
    /\ touched' = touched \cup r.touched
    /\ hist' = IF testMode /\ key = hist.q /\ hist.first = None
               THEN [hist EXCEPT !.first = r.val, !.day = today]
               ELSE hist

Key(op) == [op |-> op, limit |-> 0]

\* The file-system calls of one operation all succeed ("ok"), or the named one
\* raises OSError; the test-mode branches make no such call.
IoOutcomes(calls) == IF testMode THEN {"ok"} ELSE {"ok"} \cup calls

\* DataService(test_mode=...): FileIO.__init__ creates the directories.
Construct ==
    /\ svc = "unbuilt"
    /\ LET c == DataServiceInit(testMode, env)
       IN  /\ svc' = IF c.ok THEN "ready" ELSE "failed"
           /\ connectors' = c.connectors
    /\ audit' = [audit EXCEPT !.exists = TRUE]
    /\ UNCHANGED << testMode, env, today, file, tracking, ret, latest, hist, net,
                    touched, rq, threads, loop, session >>

Tick ==
    /\ today < Day0 + MaxTicks
    /\ today' = today + 1
    /\ UNCHANGED << testMode, svc, connectors, env, file, audit, tracking, ret, latest,
                    hist, net, touched, rq, threads, loop, session >>

CallGetPreorderProducts ==
    /\ svc = "ready"
    /\ \E limit \in Limits :
       \E script \in (IF testMode THEN QuietScripts ELSE FacadeScripts) :
          LET r == GetPreorderProducts(testMode, file, script, limit, today)
          IN  Finish([op |-> "get_preorder_products", limit |-> limit], None, r, "ok",
                     IF testMode THEN None
                     ELSE GetProductsFromCollection(script, limit).val)
    /\ UNCHANGED << testMode, svc, connectors, env, today, audit, tracking, latest, rq,
                    threads, loop, session >>

CallGetPendingReleases ==
    /\ svc = "ready"
    /\ \E io \in IoOutcomes({"listdir", "read"}) :
          Finish(Key("get_pending_releases"), None,
                 GetPendingReleases(testMode, file, audit, today, io), io, None)
    /\ UNCHANGED << testMode, svc, connectors, env, today, audit, tracking, latest, rq,
                    threads, loop, session >>

CallGetPreorderTrackingData ==
    /\ svc = "ready"
    /\ \E io \in IoOutcomes({"read"}) :
          Finish(Key("get_preorder_tracking_data"), None,
                 GetPreorderTrackingData(testMode, file, tracking, today, io), io, None)
    /\ UNCHANGED << testMode, svc, connectors, env, today, audit, tracking, latest, rq,
                    threads, loop, session >>

CallGetPubDateOverrides ==
    /\ svc = "ready"
    /\ \E io \in IoOutcomes({"read"}) :
          Finish(Key("get_pub_date_overrides"), None,
                 GetPubDateOverrides(testMode, file, today, io), io, None)
    /\ UNCHANGED << testMode, svc, connectors, env, today, audit, tracking, latest, rq,
                    threads, loop, session >>

CallUpdatePubDateOverride(isbns) ==
    /\ svc = "ready"
    /\ \E isbn \in isbns, date \in DateInputs, io \in IoOutcomes({"makedirs", "read", "write"}) :
          LET r == UpdatePubDateOverride(testMode, file, isbn, date, today, io)
          IN  /\ Len(r.file.rows) <= MaxRows
              /\ Finish(Key("update_pub_date_override"), [isbn |-> isbn, date |-> date],
                        r, io, None)
              /\ latest' = IF ~testMode /\ r.val = Bool(TRUE)
                           THEN [latest EXCEPT ![isbn] = date]
                           ELSE latest
    /\ UNCHANGED << testMode, svc, connectors, env, today, audit, tracking, rq, threads, loop,
                    session >>

CallGetApprovalStatus ==
    /\ svc = "ready"
    /\ \E answer \in IssueAnswers :
          Finish(Key("get_approval_status"), None,
                 GetApprovalStatus(testMode, file, answer), "ok",
                 IF testMode THEN None
                 ELSE List(GetIssues(<< answer >>, PerPageCap).val))
    /\ UNCHANGED << testMode, svc, connectors, env, today, audit, tracking, latest, rq,
                    threads, loop, session >>

\* A direct call of DataService._parse_issue_body.
CallParseIssueBody ==
    /\ svc = "ready"
    /\ ret = NoCall
    /\ \E rows \in Bodies :
          Finish(Key("_parse_issue_body"), [rows |-> rows],
                 Return(List(ParseIssueBody(Str(JoinLines(rows)))), file, FALSE, {}),
                 "ok", None)
    /\ UNCHANGED << testMode, svc, connectors, env, today, audit, tracking, latest, rq,
                    threads, loop, session >>

\* What a call of the file store that ended as r leaves behind.
FinishFileIO(op, args, r, io) ==
    /\ ret' = [op |-> op, key |-> Key(op), args |-> args, exc |-> r.exc, val |-> r.val,
               io |-> io, pre |-> file.exists, conn |-> None, day |-> today]
    /\ file' = r.file
    /\ audit' = r.audit
    /\ UNCHANGED << testMode, svc, connectors, env, today, tracking, latest, hist, net,
                    touched, rq, threads, loop, session >>

CallReadJson ==
    /\ ret = NoCall
    /\ \E name \in {JanName, FebName}, default \in Defaults, io \in {"ok", "open"} :
          FinishFileIO("read_json", [name |-> name, default |-> default],
                       FileIOReadJson(file, audit, name, default, io), io)

CallWriteJson ==
    /\ ret = NoCall
    /\ \E name \in {JanName, FebName}, data \in JsonData,
          io \in {"ok", "makedirs", "open"} :
          FinishFileIO("write_json", [name |-> name, data |-> data],
                       FileIOWriteJson(file, audit, name, data, io), io)

CallReadCsv ==
    /\ ret = NoCall
    /\ \E default \in Defaults, io \in {"ok", "open"} :
          FinishFileIO("read_csv", [default |-> default],
                       FileIOReadCsv(file, audit, default, io), io)

CallWriteCsv ==
    /\ ret = NoCall
    /\ \E df \in Frames, io \in {"ok", "makedirs", "open"} :
          FinishFileIO("write_csv", [df |-> df],
                       FileIOWriteCsv(file, audit, df, io), io)

CallAppendCsv ==
    /\ ret = NoCall
    /\ \E data \in CsvRows, fieldnames \in {<< >>, OverrideColumns},
          io \in {"ok", "makedirs", "inspect", "open"} :
          FinishFileIO("append_csv", [data |-> data, fieldnames |-> fieldnames],
                       FileIOAppendCsv(file, audit, data, fieldnames, io), io)

CallGetRecentFiles ==
    /\ ret = NoCall
    /\ \E listing \in Listings(audit), prefix \in {<< >>, PendingPrefix},
          suffix \in {<< >>, JsonSuffix}, count \in 1..2,
          io \in {"ok", "listdir", "inspect"} :
          FinishFileIO("get_recent_files",
                       [listing |-> listing, prefix |-> prefix, suffix |-> suffix,
                        count |-> count],
                       FileIOGetRecentFiles(file, audit, listing, prefix, suffix, count, io),
                       io)

CallBackupFile ==
    /\ ret = NoCall
    /\ \E name \in {JanName, TxtName}, io \in {"ok", "makedirs", "copy"} :
          FinishFileIO("backup_file", [name |-> name],
                       FileIOBackupFile(file, audit, name, today, io), io)

\* Direct calls of the GitHubConnector operations.
CallGetIssues ==
    /\ svc = "ready"
    /\ ret = NoCall
    /\ \E script \in IssueScripts, limit \in IssueLimits :
          LET r == GetIssues(script, limit)
          IN  Finish(Key("get_issues"), [script |-> script, limit |-> limit],
                     Return(List(r.val), file, r.requests > 0, {}), "ok",
                     [requests |-> r.requests, per_page |-> r.per_page])
    /\ UNCHANGED << testMode, svc, connectors, env, today, audit, tracking, latest, rq,
                    threads, loop, session >>

CallGetIssue ==
    /\ svc = "ready"
    /\ ret = NoCall
    /\ \E script \in IssueAttempts :
          LET r == RequestOnce("get_issue", script)
          IN  Finish(Key("get_issue"), [script |-> script],
                     Return(r.val, file, TRUE, {}), "ok", [requests |-> r.requests])
    /\ UNCHANGED << testMode, svc, connectors, env, today, audit, tracking, latest, rq,
                    threads, loop, session >>

CallCreateIssue ==
    /\ svc = "ready"
    /\ ret = NoCall
    /\ \E script \in IssueAttempts :
          LET r == RequestOnce("create_issue", script)
          IN  Finish(Key("create_issue"), [script |-> script],
                     Return(r.val, file, TRUE, {}), "ok", [requests |-> r.requests])
    /\ UNCHANGED << testMode, svc, connectors, env, today, audit, tracking, latest, rq,
                    threads, loop, session >>

CallAddComment ==
    /\ svc = "ready"
    /\ ret = NoCall
    /\ \E script \in IssueAttempts :
          LET r == RequestOnce("add_comment", script)
          IN  Finish(Key("add_comment"), [script |-> script],
                     Return(r.val, file, TRUE, {}), "ok", [requests |-> r.requests])
    /\ UNCHANGED << testMode, svc, connectors, env, today, audit, tracking, latest, rq,
                    threads, loop, session >>

\* fields are the arguments of update_issue that are not None.
CallUpdateIssue ==
    /\ svc = "ready"
    /\ ret = NoCall
    /\ \E script \in IssueAttempts, fields \in SUBSET {"title", "body", "state", "labels"} :
          LET r == UpdateIssue(fields # {}, script[1])
          IN  Finish(Key("update_issue"), [script |-> script, fields |-> fields],
                     Return(r.val, file, r.requests > 0, {}), "ok",
                     [requests |-> r.requests])
    /\ UNCHANGED << testMode, svc, connectors, env, today, audit, tracking, latest, rq,
                    threads, loop, session >>

\* A direct call of ShopifyConnector.get_products_from_collection.
CallGetProductsFromCollection ==
    /\ svc = "ready"
    /\ ret = NoCall
    /\ \E script \in FacadeScripts, limit \in Limits :
          Finish(Key("get_products_from_collection"), [script |-> script, limit |-> limit],
                 GetProductsFromCollection(script, limit), "ok", None)
    /\ UNCHANGED << testMode, svc, connectors, env, today, audit, tracking, latest, rq,
                    threads, loop, session >>

\* One run of show_preorder_management up to the table of the first tab
\* (lines 20-181).  An exception of the sort is not caught by the page.
ShowPreorderManagement ==
    /\ svc = "ready"
    /\ ret = NoCall
    /\ \E script \in (IF testMode THEN QuietScripts ELSE PageLoadScripts),
          io \in IoOutcomes({"read"}),
          search_term \in SearchTerms, date_filter \in DateFilters, sort_by \in SortOptions :
          LET products  == GetPreorderProducts(testMode, file, script, PerPageCap, today)
              overrides == GetPubDateOverrides(testMode, file, today, io)
              page      == CurrentPreorders(products.val.list, overrides.val, search_term,
                                            date_filter, sort_by, today)
          IN  Finish(Key("show_preorder_management"),
                     [search_term |-> search_term, date_filter |-> date_filter,
                      sort_by |-> sort_by],
                     [exc |-> page.exc, val |-> page, file |-> file,
                      net |-> products.net, touched |-> overrides.touched],
                     io, [products |-> products.val.list, overrides |-> overrides.val])
    /\ UNCHANGED << testMode, svc, connectors, env, today, audit, tracking, latest, rq,
                    threads, loop, session >>

\* The 'Delete Selected Overrides' button of the override-management page.
\* A click reruns the page: it reads the overrides and the preorder products
\* (lines 26-29), renders the button only when the mapping is not empty
\* (line 38) and answers the click with a warning (lines 59-60).
ClickDeleteSelectedOverrides ==
    /\ svc = "ready"
    /\ \E io \in IoOutcomes({"read"}) :
          LET overrides == GetPubDateOverrides(testMode, file, today, io)
          IN  /\ DOMAIN overrides.val.map # {}
              /\ ret' = [NoCall EXCEPT !.op = "Delete Selected Overrides",
                                       !.val = Str("Delete functionality not yet implemented"),
                                       !.io = io, !.pre = file.exists, !.day = today]
              /\ file' = overrides.file
              /\ net' = (net \/ ~testMode)
              /\ touched' = touched \cup overrides.touched
    /\ UNCHANGED << testMode, svc, connectors, env, today, audit, tracking, latest, hist,
                    rq, threads, loop, session >>

\* get_preorder_sales is entered (lines 343-345).
StartSales ==
    /\ svc = "ready"
    /\ loop.pc = "idle"
    /\ \E pages \in SalesScripts : loop' = [NoLoop EXCEPT !.pc = "running", !.pages = pages]
    /\ UNCHANGED << testMode, svc, connectors, env, today, file, audit, tracking, ret,
                    latest, hist, net, touched, rq, threads, session >>

\* One pass of the while loop (lines 347-387): the page after the cursor is
\* asked for, its records gathered and the cursor moved.  The server answers
\* the same cursor with the same page.
FetchSalesPage ==
    /\ loop.pc = "running"
    /\ LET k == loop.cursor + 1
           r == IF k > Len(loop.pages)
                THEN [kind |-> "return", data |-> [orders |-> << >>, hasNextPage |-> FALSE]]
                ELSE RunQueryWithRetries(loop.pages[k], DefaultMaxRetries)
           asked == [loop EXCEPT !.asked = @ \cup {loop.cursor},
                                 !.repeated = @ \/ loop.cursor \in loop.asked]
       IN  IF r.kind = "raise" \/ PageRaises(r.data)
           THEN loop' = [asked EXCEPT !.pc = "done", !.sales = << >>]
           ELSE loop' = [asked EXCEPT
                           !.pc = IF r.data.hasNextPage THEN "running" ELSE "done",
                           !.sales = @ \o OrdersRecords(r.data.orders),
                           !.cursor = IF r.data.hasNextPage /\ r.data.orders # << >>
                                      THEN k ELSE @]
    /\ net' = TRUE
    /\ UNCHANGED << testMode, svc, connectors, env, today, file, audit, tracking, ret,
                    latest, hist, touched, rq, threads, session >>

\* update_pub_date_override(isbn, date) is entered on thread t (live mode).
BeginUpdate(t) ==
    /\ svc = "ready" /\ ~testMode
    /\ threads[t].pc = "idle"
    /\ \E isbn \in IsbnInputs, date \in DateInputs :
          threads' = [threads EXCEPT ![t] = [Idle EXCEPT !.pc = "read", !.isbn = isbn,
                                                         !.date = date]]
    /\ UNCHANGED << testMode, svc, connectors, env, today, file, audit, tracking, ret,
                    latest, hist, net, touched, rq, loop, session >>

\* Lines 196-220 on thread t: the file is read and the frame updated in memory.
ReadOverrides(t) ==
    /\ threads[t].pc = "read"
    /\ threads' = [threads EXCEPT ![t] =
                      [@ EXCEPT !.pc = "write",
                                !.df = Upsert(IF file.exists THEN ReadCsv(file) ELSE EmptyFrame,
                                              threads[t].isbn, threads[t].date,
                                              today),
                                !.read = file,
                                !.sawOther = \E u \in Threads : threads[u].pc = "done"]]
    /\ touched' = touched \cup {"overrides"}
    /\ UNCHANGED << testMode, svc, connectors, env, today, file, audit, tracking, ret,
                    latest, hist, net, rq, loop, session >>

\* Lines 223-225 on thread t: the frame replaces the file and the call returns.
WriteOverrides(t) ==
    /\ threads[t].pc = "write"
    /\ threads' = [u \in Threads |->
                      IF u = t THEN [threads[u] EXCEPT !.pc = "done", !.last = TRUE]
                      ELSE [threads[u] EXCEPT !.last = FALSE]]
    /\ Finish(Key("update_pub_date_override"),
              [isbn |-> threads[t].isbn, date |-> threads[t].date],
              Return(Bool(TRUE), ToCsv(threads[t].df), FALSE, {"overrides"}), "ok", None)
    /\ latest' = [latest EXCEPT ![threads[t].isbn] = threads[t].date]
    /\ UNCHANGED << testMode, svc, connectors, env, today, audit, tracking, rq, loop, session >>

\* A direct call of ShopifyConnector.get_preorder_sales.
CallGetPreorderSales ==
    /\ svc = "ready"
    /\ ret = NoCall
    /\ \E pages \in SalesScripts :
          LET r == GetPreorderSales(pages)
          IN  Finish(Key("get_preorder_sales"), [pages |-> pages],
                     [exc |-> IF r.kind = "hangs" THEN "hangs" ELSE "none",
                      val |-> List(r.sales), file |-> file, net |-> TRUE, touched |-> {}],
                     "ok", [fetched |-> r.fetched, caught |-> r.kind = "caught"])
    /\ UNCHANGED << testMode, svc, connectors, env, today, audit, tracking, latest, rq,
                    threads, loop, session >>

\* A direct call of ShopifyConnector.run_query_with_retries.
CallRunQuery ==
    /\ svc = "ready"
    /\ rq = NoQuery
    /\ \E script \in RetryScripts, max_retries \in 0..MaxScript :
          rq' = [script |-> script, max_retries |-> max_retries,
                 out |-> RunQueryWithRetries(script, max_retries)]
    /\ UNCHANGED << testMode, svc, connectors, env, today, file, audit, tracking, ret,
                    latest, hist, net, touched, threads, loop, session >>

InitCommon ==
    /\ today = Day0
    /\ ret = NoCall
    /\ rq = NoQuery
    /\ threads = [t \in Threads |-> Idle]
    /\ loop = NoLoop
    /\ session = NoSession
    /\ latest = [k \in IsbnInputs |-> None]
    /\ net = FALSE
    /\ touched = {}

InitReady ==
    /\ InitCommon
    /\ testMode = FALSE
    /\ svc = "ready"
    /\ connectors = {"shopify", "github"}
    /\ env = GoodEnv
    /\ hist = [q |-> Key("none"), first |-> None, day |-> 0]

(***************************************************************************)
(* Specifications.                                                         *)
(***************************************************************************)
\* The overrides file under the facade's update and read, in live mode.
InitOverrides ==
    /\ InitReady
    /\ file \in InitFiles
    /\ audit = NoAudit
    /\ tracking = "missing"

NextOverrides ==
    \/ CallUpdatePubDateOverride(IsbnInputs)
    \/ CallGetPubDateOverrides

SpecOverrides == InitOverrides /\ [][NextOverrides]_vars

\* Direct calls of the retry loop.
InitRetry ==
    /\ InitReady
    /\ file = NoFile
    /\ audit = NoAudit
    /\ tracking = "missing"

NextRetry == CallRunQuery

SpecRetry == InitRetry /\ [][NextRetry]_vars

\* Direct calls of the approval-body parser.
NextParse == CallParseIssueBody

SpecParse == InitRetry /\ [][NextParse]_vars

\* Direct calls of the local file store.
InitFileIO ==
    /\ InitReady
    /\ file \in StoreFiles
    /\ audit \in StoreDirs
    /\ tracking = "missing"

NextFileIO ==
    \/ CallReadJson
    \/ CallWriteJson
    \/ CallReadCsv
    \/ CallWriteCsv
    \/ CallAppendCsv
    \/ CallGetRecentFiles
    \/ CallBackupFile

SpecFileIO == InitFileIO /\ [][NextFileIO]_vars

\* Direct calls of the issue-tracker connector.
NextIssues ==
    \/ CallGetIssues
    \/ CallGetIssue
    \/ CallCreateIssue
    \/ CallUpdateIssue
    \/ CallAddComment

SpecIssues == InitRetry /\ [][NextIssues]_vars

\* Construction of a live service under every environment.
InitConstruct ==
    /\ InitCommon
    /\ testMode = FALSE
    /\ svc = "unbuilt"
    /\ connectors = {}
    /\ env \in EnvChoices
    /\ hist = [q |-> Key("none"), first |-> None, day |-> 0]
    /\ file = NoFile
    /\ audit = [exists |-> FALSE, files |-> << >>]
    /\ tracking = "missing"

NextConstruct == Construct

SpecConstruct == InitConstruct /\ [][NextConstruct]_vars

\* Direct calls of the collection query.
NextCollection == CallGetProductsFromCollection

SpecCollection == InitRetry /\ [][NextCollection]_vars

\* The preorder-management listing, in test mode and in live mode.
InitListing ==
    /\ InitCommon
    /\ testMode \in BOOLEAN
    /\ svc = "ready"
    /\ connectors = IF testMode THEN {} ELSE {"shopify", "github"}
    /\ env = GoodEnv
    /\ hist = [q |-> Key("none"), first |-> None, day |-> 0]
    /\ file \in ListingFiles
    /\ audit = NoAudit
    /\ tracking = "missing"

NextListing == ShowPreorderManagement

SpecListing == InitListing /\ [][NextListing]_vars

\* The overrides file under the facade's operations and the page's button.
NextOverridesPage ==
    \/ CallUpdatePubDateOverride(IsbnInputs)
    \/ CallGetPubDateOverrides
    \/ ClickDeleteSelectedOverrides

SpecOverridesPage == InitOverrides /\ [][NextOverridesPage]_vars

\* The pagination loop of get_preorder_sales, one page a step.  The loop is
\* synchronous: a pass that can be made is made.
NextSalesLoop == StartSales \/ FetchSalesPage

SpecSalesLoop == InitRetry /\ [][NextSalesLoop]_vars /\ WF_vars(FetchSalesPage)

\* Two threads, each running one live update: the read and the write of a
\* call are steps of their own, interleaved in any order.
NextRace ==
    \/ \E t \in Threads : BeginUpdate(t)
    \/ \E t \in Threads : ReadOverrides(t)
    \/ \E t \in Threads : WriteOverrides(t)

SpecRace == InitOverrides /\ [][NextRace]_vars

\* Direct calls of the sales query.
NextSales == CallGetPreorderSales

SpecSales == InitRetry /\ [][NextSales]_vars

\* get_pending_releases over every audit directory.
InitPending ==
    /\ InitReady
    /\ file = NoFile
    /\ audit \in AuditDirs
    /\ tracking = "missing"

NextPending == CallGetPendingReleases

SpecPending == InitPending /\ [][NextPending]_vars

\* The six facade operations in live mode.  One resource at a time departs
\* from an empty installation.
FacadeScenes ==
    {[file |-> f, audit |-> NoAudit, tracking |-> "missing"] :
        f \in {NoFile, FileOf(<< SeedRow(<< 7 >>) >>)}}
    \cup {[file |-> NoFile, audit |-> a, tracking |-> "missing"] :
            a \in {[exists |-> FALSE, files |-> << >>]}
                  \cup {[exists |-> TRUE,
                         files |-> [n \in {FebName} |-> [mtime |-> 1, content |-> c]]] :
                          c \in Contents}}
    \cup {[file |-> NoFile, audit |-> NoAudit, tracking |-> t] : t \in {"rows", "garbled"}}

InitFacade ==
    /\ InitReady
    /\ \E scene \in FacadeScenes :
          /\ file = scene.file
          /\ audit = scene.audit
          /\ tracking = scene.tracking

NextFacade ==
    \/ CallGetPreorderProducts
    \/ CallGetPendingReleases
    \/ CallGetPreorderTrackingData
    \/ CallGetPubDateOverrides
    \/ CallUpdatePubDateOverride({<< 7, 10 >>})
    \/ CallGetApprovalStatus

SpecFacade == InitFacade /\ [][NextFacade]_vars

\* Construction and the six operations in test mode, under any environment.
InitTestMode ==
    /\ InitCommon
    /\ testMode = TRUE
    /\ svc = "unbuilt"
    /\ connectors = {}
    /\ env \in TestModeEnvs
    /\ hist \in [q : QueryKeys, first : {None}, day : {0}]
    /\ file \in {NoFile, FileOf(<< SeedRow(<< 7 >>) >>)}
    /\ audit = [exists |-> TRUE,
                files |-> [n \in {FebName} |-> [mtime |-> 1,
                                                 content |-> [kind |-> "object", q |-> 1]]]]
    /\ tracking = "rows"

NextTestMode ==
    \/ Construct
    \/ Tick
    \/ CallGetPreorderProducts
    \/ CallGetPendingReleases
    \/ CallGetPreorderTrackingData
    \/ CallGetPubDateOverrides
    \/ CallUpdatePubDateOverride({<< 7 >>})
    \/ CallGetApprovalStatus

SpecTestMode == InitTestMode /\ [][NextTestMode]_vars

(***************************************************************************)
(* The Streamlit session.  Every user event runs the script of app.py once *)
(* from the top; st.experimental_rerun() ends the run and starts another.  *)
(* session holds st.session_state (current_page, test_mode,                *)
(* override_page), the state of the widgets that have no key (the 'Test    *)
(* Mode' toggle, the 'Search Products' box), the size of the live          *)
(* collection and what the last run put on the screen.  A widget that a    *)
(* run does not render loses its state and shows its default the next time *)
(* it is rendered.                                                         *)
(***************************************************************************)
Pages == {"dashboard", "preorder_management", "override_management", "approvals",
          "reports"}

PageSize == 10

\* The characters of a title of the sample dataset.
TitleText(title) ==
    CASE title = "Future Release Book" ->
           << 70, 117, 116, 117, 114, 101, 32, 82, 101, 108, 101, 97, 115, 101, 32, 66, 111, 111, 107 >>
      [] title = "Recent Release Book" ->
           << 82, 101, 99, 101, 110, 116, 32, 82, 101, 108, 101, 97, 115, 101, 32, 66, 111, 111, 107 >>
      [] title = "Past Due Book" ->
           << 80, 97, 115, 116, 32, 68, 117, 101, 32, 66, 111, 111, 107 >>
      [] title = "Missing Date Book" ->
           << 77, 105, 115, 115, 105, 110, 103, 32, 68, 97, 116, 101, 32, 66, 111, 111, 107 >>
      [] title = "Malformed Date Book" ->
           << 77, 97, 108, 102, 111, 114, 109, 101, 100, 32, 68, 97, 116, 101, 32, 66, 111, 111, 107 >>

\* str.lower() of one character and of a text
LowerChar(c) == IF c \in 65..90 THEN c + 32 ELSE c

LowerText(text) == [i \in 1..Len(text) |-> LowerChar(text[i])]

\* Line 78: f"{title} (ISBN: {barcode})"
OptionLabel(title, barcode) ==
    title \o << 32, 40, 73, 83, 66, 78, 58, 32 >>
          \o [i \in 1..Len(barcode) |-> Zero + barcode[i]] \o << 41 >>

\* The products of the service: the sample dataset in test mode, and in live
\* mode a collection of n products titled 'A' and 'C' in turn, with the
\* barcodes 01, 02, ...
ListedProducts(test_mode, n) ==
    IF test_mode
    THEN [i \in 1..5 |-> [title |-> TitleText(TestProductList(0)[i].title),
                          barcode |-> TestProductList(0)[i].barcode]]
    ELSE [i \in 1..n |-> [title |-> IF i % 2 = 1 THEN << 65 >> ELSE << 67 >>,
                          barcode |-> << i \div 10, i % 10 >>]]

\* a < b for two texts, as Python orders str
RECURSIVE TextLess(_, _)
TextLess(a, b) ==
    IF b = << >> THEN FALSE
    ELSE IF a = << >> THEN TRUE
    ELSE IF Head(a) # Head(b) THEN Head(a) < Head(b)
    ELSE TextLess(Tail(a), Tail(b))

RECURSIVE InsertByLabel(_, _)
InsertByLabel(sorted, option) ==
    IF sorted = << >> THEN << option >>
    ELSE IF TextLess(option.label, Head(sorted).label)
    THEN << option >> \o sorted
    ELSE << Head(sorted) >> \o InsertByLabel(Tail(sorted), option)

\* Lines 74-83: an option per product that has a barcode, sorted by label.
RECURSIVE ProductOptions(_)
ProductOptions(products) ==
    IF products = << >> THEN << >>
    ELSE LET product == products[Len(products)]
             rest == ProductOptions(SubSeq(products, 1, Len(products) - 1))
         IN  IF product.barcode = << >> THEN rest
             ELSE InsertByLabel(rest, [label |-> OptionLabel(product.title,
                                                              product.barcode),
                                       value |-> product.barcode])

\* Lines 89-93
RECURSIVE FilteredOptions(_, _)
FilteredOptions(options, search_term) ==
    IF search_term = << >> \/ options = << >> THEN options
    ELSE IF IsInfix(LowerText(search_term), LowerText(Head(options).label))
    THEN << Head(options) >> \o FilteredOptions(Tail(options), search_term)
    ELSE FilteredOptions(Tail(options), search_term)

\* Line 97
TotalPages(filtered) ==
    LET pages == (Len(filtered) + PageSize - 1) \div PageSize
    IN  IF pages > 1 THEN pages ELSE 1

\* Lines 85-120 of show_override_management: the run in which the search
\* box holds search_term and click ("none", "prev" or "next") is the button
\* pressed.  The page index is never compared with total_pages but by the
\* Next button.
ShowOverrideManagement(s, search_term, click) ==
    LET filtered == FilteredOptions(ProductOptions(ListedProducts(s.test_mode, s.catalog)),
                                    search_term)
        total_pages == TotalPages(filtered)
        stored == IF s.has_override_page THEN s.override_page ELSE 0
        page == CASE click = "prev" -> IF stored - 1 > 0 THEN stored - 1 ELSE 0
                  [] click = "next" ->
                         IF total_pages - 1 < stored + 1 THEN total_pages - 1
                         ELSE stored + 1
                  [] OTHER -> stored
        start_idx == page * PageSize
        end_idx == IF start_idx + PageSize < Len(filtered) THEN start_idx + PageSize
                   ELSE Len(filtered)
    IN  [s EXCEPT !.has_override_page = TRUE,
                  !.override_page = page,
                  !.search_term = search_term,
                  !.screen = [page |-> "override_management", go_to_approvals |-> FALSE,
                              edit_pub_date |-> FALSE, total_pages |-> total_pages,
                              matches |-> Len(filtered),
                              shown |-> SubSeq(filtered, start_idx + 1, end_idx)]]

\* A page other than the override page: the search box is not rendered.
\* has_rows says whether the page has rows to show: pending releases on the
\* dashboard (line 105; the sample dataset always has some), listed products
\* on the preorder page (line 164).
ShowOther(s, has_rows) ==
    [s EXCEPT !.search_term = << >>,
              !.screen = [page |-> s.current_page,
                          go_to_approvals |-> s.current_page = "dashboard"
                                              /\ (s.test_mode \/ has_rows),
                          edit_pub_date |-> s.current_page = "preorder_management"
                                            /\ has_rows,
                          total_pages |-> 0, matches |-> 0, shown |-> << >>]]

\* app.py lines 54-64
ShowPage(s, search_term, click, has_rows) ==
    IF s.current_page = "override_management"
    THEN ShowOverrideManagement(s, search_term, click)
    ELSE ShowOther(s, has_rows)

\* app.py lines 48-52, were the page the sidebar returns not stored.
RenderSidebarUnstored(s, nav, toggle) ==
    IF nav # "none"
    THEN [s EXCEPT !.toggle = TRUE, !.nav = nav]
    ELSE [s EXCEPT !.toggle = toggle, !.test_mode = toggle, !.nav = "none"]

\* render_sidebar and app.py lines 48-52.  nav is the navigation button
\* pressed ("none": no one); the function returns at the pressed button, before
\* the toggle is rendered (lines 23-55), else the toggle's value is stored
\* (lines 62-63).  session.nav keeps the button the last run was started by.
RenderSidebar(s, nav, toggle) ==
    IF nav # "none"
    THEN [s EXCEPT !.current_page = nav, !.toggle = TRUE, !.nav = nav]
    ELSE [s EXCEPT !.toggle = toggle, !.test_mode = toggle, !.nav = "none"]

\* One run of the script: main() of app.py.
Main(s, nav, toggle, search_term, click, has_rows) ==
    ShowPage(RenderSidebar(s, nav, toggle), search_term, click, has_rows)

\* The value the search box has in a run that does not change it.
SearchBox(s) == IF s.screen.page = "override_management" THEN s.search_term ELSE << >>

SessionTerms == {<< >>, << 97 >>, << 122 >>}
Catalogs == {0, 12, 25}

\* A run of the script changes the session only.
ServiceIdle ==
    UNCHANGED << testMode, svc, connectors, env, today, file, audit, tracking, ret,
                 latest, hist, net, touched, rq, threads, loop >>

\* A sidebar navigation button is pressed.
ClickSidebar ==
    /\ \E nav \in Pages, has_rows \in BOOLEAN :
           session' = Main(session, nav, session.toggle,
                           IF nav = session.screen.page THEN SearchBox(session) ELSE << >>,
                           "none", has_rows)
    /\ ServiceIdle

\* The 'Test Mode' toggle is switched.
SwitchTestMode ==
    /\ \E has_rows \in BOOLEAN :
           session' = Main(session, "none", ~session.toggle, SearchBox(session), "none",
                           has_rows)
    /\ ServiceIdle

\* 'Refresh Data' (header.py lines 37-38): the run ends at the button and
\* the script runs again with no event.
ClickRefreshData ==
    /\ \E has_rows \in BOOLEAN :
           session' = Main(session, "none", session.toggle, SearchBox(session), "none",
                           has_rows)
    /\ ServiceIdle

\* 'Go to Approvals Page' (dashboard.py lines 128-130): the run reaches the
\* button when the dashboard still has pending releases, stores the page
\* and the script runs again.
ClickGoToApprovals ==
    /\ session.screen.go_to_approvals
    /\ \E has_rows \in BOOLEAN :
          LET first == Main(session, "none", session.toggle, << >>, "none", has_rows)
          IN  session' = IF first.screen.go_to_approvals
                         THEN Main([first EXCEPT !.current_page = "approvals"], "none",
                                   first.toggle, << >>, "none", has_rows)
                         ELSE first
    /\ ServiceIdle

\* 'Edit Publication Date' (preorder_management.py lines 194-196)
ClickEditPublicationDate ==
    /\ session.screen.edit_pub_date
    /\ \E has_rows \in BOOLEAN :
          LET first == Main(session, "none", session.toggle, << >>, "none", has_rows)
          IN  session' = IF first.screen.edit_pub_date
                         THEN Main([first EXCEPT !.current_page = "override_management"],
                                   "none", first.toggle, << >>, "none", has_rows)
                         ELSE first
    /\ ServiceIdle

\* '<- Previous' and 'Next ->' (override_management.py lines 107-115)
ClickPrevious ==
    /\ session.screen.page = "override_management"
    /\ session' = Main(session, "none", session.toggle, session.search_term, "prev", FALSE)
    /\ ServiceIdle

ClickNext ==
    /\ session.screen.page = "override_management"
    /\ session' = Main(session, "none", session.toggle, session.search_term, "next", FALSE)
    /\ ServiceIdle

\* The text of 'Search Products' is changed (line 86).
ChangeSearch ==
    /\ session.screen.page = "override_management"
    /\ \E search_term \in SessionTerms \ {session.search_term} :
          session' = Main(session, "none", session.toggle, search_term, "none", FALSE)
    /\ ServiceIdle

\* The first run of a new session (app.py lines 32-33 and 41-42): the
\* dashboard, in test mode.
InitSession ==
    /\ today = Day0
    /\ ret = NoCall
    /\ rq = NoQuery
    /\ threads = [t \in Threads |-> Idle]
    /\ loop = NoLoop
    /\ latest = [k \in IsbnInputs |-> None]
    /\ net = FALSE
    /\ touched = {}
    /\ testMode = TRUE
    /\ svc = "ready"
    /\ connectors = {}
    /\ env = GoodEnv
    /\ hist = [q |-> Key("none"), first |-> None, day |-> 0]
    /\ file = NoFile
    /\ audit = NoAudit
    /\ tracking = "missing"
    /\ \E n \in Catalogs :
          session = Main([NoSession EXCEPT !.current_page = "dashboard", !.catalog = n],
                         "none", TRUE, << >>, "none", FALSE)

NextSession ==
    \/ ClickSidebar
    \/ SwitchTestMode
    \/ ClickRefreshData
    \/ ClickGoToApprovals
    \/ ClickEditPublicationDate
    \/ ClickPrevious
    \/ ClickNext
    \/ ChangeSearch

SpecSession == InitSession /\ [][NextSession]_vars

(***************************************************************************)
(* The publication-date statistics of the dashboard and of the override    *)
(* page.  Here a product's pub_date is None or Str(text), the text a       *)
(* sequence of character codes.                                            *)
(***************************************************************************)
MaxDated == 2        \* products the pages classify in one run

\* The %Y, %m and %d directives of _strptime, as the patterns it compiles
\* them to: \d\d\d\d, 1[0-2]|0[1-9]|[1-9] and
\* 3[01]|[12]\d|0[1-9]|[1-9]| [1-9].
IsDigitChar(c) == c \in 48..57

YearField(p) == Len(p) = 4 /\ \A i \in 1..4 : IsDigitChar(p[i])

MonthField(p) ==
    \/ Len(p) = 2 /\ p[1] = 49 /\ p[2] \in 48..50
    \/ Len(p) = 2 /\ p[1] = 48 /\ p[2] \in 49..57
    \/ Len(p) = 1 /\ p[1] \in 49..57

DayField(p) ==
    \/ Len(p) = 2 /\ p[1] = 51 /\ p[2] \in 48..49
    \/ Len(p) = 2 /\ p[1] \in 49..50 /\ IsDigitChar(p[2])
    \/ Len(p) = 2 /\ p[1] = 48 /\ p[2] \in 49..57
    \/ Len(p) = 1 /\ p[1] \in 49..57
    \/ Len(p) = 2 /\ p[1] = Space /\ p[2] \in 49..57

FieldValue(p) ==
    TextToInt([i \in 1..Len(p) |-> IF p[i] = Space THEN 0 ELSE p[i] - Zero])

\* datetime.strptime(text, '%Y-%m-%d').date(): ok is FALSE where it raises
\* ValueError (no match, text left over, year 0 or a day the month lacks).
Strptime(text) ==
    LET parts == SplitOn(text, 45)
        fields == Len(parts) = 3 /\ YearField(parts[1]) /\ MonthField(parts[2])
                  /\ DayField(parts[3])
        y == FieldValue(parts[1])
        m == FieldValue(parts[2])
        d == FieldValue(parts[3])
    IN  IF fields /\ y >= 1 /\ d <= MonthLen(y, m)
        THEN [ok |-> TRUE, date |-> [y |-> y, m |-> m, d |-> d]]
        ELSE [ok |-> FALSE, date |-> [y |-> 0, m |-> 0, d |-> 0]]

\* not pub_date_str
IsFalsy(pub_date) == pub_date = None \/ pub_date.str = << >>

\* dashboard.py lines 55-70, were a date equal to today counted as future.
DashboardStepTodayFuture(counts, product, now) ==
    IF IsFalsy(product.pub_date) THEN [counts EXCEPT !.missing = @ + 1]
    ELSE LET parsed == Strptime(product.pub_date.str)
         IN  IF ~parsed.ok THEN [counts EXCEPT !.malformed = @ + 1]
             ELSE IF DateNumber(parsed.date) >= DateNumber(Strftime(now))
             THEN [counts EXCEPT !.future = @ + 1]
             ELSE [counts EXCEPT !.past = @ + 1]

\* dashboard.py lines 55-70: one turn of the loop.
DashboardStep(counts, product, now) ==
    IF IsFalsy(product.pub_date) THEN [counts EXCEPT !.missing = @ + 1]
    ELSE LET parsed == Strptime(product.pub_date.str)
         IN  IF ~parsed.ok THEN [counts EXCEPT !.malformed = @ + 1]
             ELSE IF DateNumber(parsed.date) > DateNumber(Strftime(now))
             THEN [counts EXCEPT !.future = @ + 1]
             ELSE [counts EXCEPT !.past = @ + 1]

\* dashboard.py lines 47-70
RECURSIVE DashboardCounts(_, _)
DashboardCounts(products, now) ==
    IF products = << >> THEN [future |-> 0, past |-> 0, missing |-> 0, malformed |-> 0]
    ELSE DashboardStep(DashboardCounts(SubSeq(products, 1, Len(products) - 1), now),
                       products[Len(products)], now)

\* override_management.py lines 206-221: one turn of the loop.
OverrideStep(lists, product, now) ==
    IF IsFalsy(product.pub_date) THEN [lists EXCEPT !.missing = Append(@, product)]
    ELSE LET parsed == Strptime(product.pub_date.str)
         IN  IF ~parsed.ok THEN [lists EXCEPT !.malformed = Append(@, product)]
             ELSE IF DateNumber(parsed.date) > DateNumber(Strftime(now))
             THEN [lists EXCEPT !.future = Append(@, product)]
             ELSE [lists EXCEPT !.past = Append(@, product)]

\* override_management.py lines 198-221
RECURSIVE PubDateIssues(_, _)
PubDateIssues(products, now) ==
    IF products = << >>
    THEN [future |-> << >>, past |-> << >>, missing |-> << >>, malformed |-> << >>]
    ELSE OverrideStep(PubDateIssues(SubSeq(products, 1, Len(products) - 1), now),
                      products[Len(products)], now)

\* A number below 100 as a field of a date text: zero-padded, bare or
\* space-padded.
Pad2(n, pad) ==
    IF n >= 10 THEN << Zero + (n \div 10), Zero + (n % 10) >>
    ELSE CASE pad = "zero" -> << Zero, Zero + n >>
           [] pad = "space" -> << Space, Zero + n >>
           [] OTHER -> << Zero + n >>

DateText(date, month_pad, day_pad) ==
    [i \in 1..4 |-> Zero + ((date.y \div (10 ^ (4 - i))) % 10)]
    \o << 45 >> \o Pad2(date.m, month_pad) \o << 45 >> \o Pad2(date.d, day_pad)

\* date.strftime('%Y-%m-%d') as a text
IsoText(date) == DateText(date, "zero", "zero")

\* The pub_date values of the products the pages are given: absent, empty,
\* yesterday, today, tomorrow and the day after as YYYY-MM-DD, tomorrow as
\* 2025-3-1, and the texts '2025-02-30', 'soon', ' ', '2025-02-28 ' and
\* '2025/03/01'.
PubDateInputs ==
    {None, Str(<< >>)}
    \cup {Str(IsoText(Strftime(n))) : n \in (Day0 - 1)..(Day0 + 2)}
    \cup {Str(DateText(Strftime(Day0 + 1), "none", "none")),
          Str(<< 50, 48, 50, 53, 45, 48, 50, 45, 51, 48 >>),
          Str(<< 115, 111, 111, 110 >>),
          Str(<< Space >>),
          Str(IsoText(Strftime(Day0)) \o << Space >>),
          Str(<< 50, 48, 50, 53, 47, 48, 51, 47, 48, 49 >>)}

DatedProducts == {[title |-> "Live title", pub_date |-> p] : p \in PubDateInputs}

DatedProductLists == UNION {[1..n -> DatedProducts] : n \in 0..MaxDated}

\* A run of show_dashboard over a list of products.
ShowDashboardDates ==
    /\ ret = NoCall
    /\ \E products \in DatedProductLists :
          ret' = [NoCall EXCEPT !.op = "show_dashboard",
                                !.args = [products |-> products],
                                !.val = DashboardCounts(products, today),
                                !.day = today]
    /\ UNCHANGED << testMode, svc, connectors, env, today, file, audit, tracking, latest,
                    hist, net, touched, rq, threads, loop, session >>

\* A run of show_override_management over a list of products.
ShowOverrideDates ==
    /\ ret = NoCall
    /\ \E products \in DatedProductLists :
          ret' = [NoCall EXCEPT !.op = "show_override_management",
                                !.args = [products |-> products],
                                !.val = PubDateIssues(products, today),
                                !.day = today]
    /\ UNCHANGED << testMode, svc, connectors, env, today, file, audit, tracking, latest,
                    hist, net, touched, rq, threads, loop, session >>

NextDates ==
    \/ Tick
    \/ ShowDashboardDates
    \/ ShowOverrideDates

SpecDates == InitRetry /\ [][NextDates]_vars

(***************************************************************************)
(* Claims.                                                                 *)
(***************************************************************************)
RowsFor(k) == {i \in 1..Len(file.rows) : file.rows[i].ISBN = k}

\* C1: after any sequence of successful live updates, the overrides file
\* holds exactly one row for every ISBN that was updated, and that row
\* carries the date of the ISBN's most recent update.
C1_OneRowPerUpdatedIsbn ==
    \A k \in IsbnInputs :
        latest[k] # None =>
            /\ Cardinality(RowsFor(k)) = 1
            /\ \A i \in RowsFor(k) : file.rows[i].Corrected_Pub_Date = latest[k]

\* C2: in live mode get_preorder_products returns the sample dataset,
\* truncated to limit, whenever the connector returned an empty list or
\* None, and the connector's products only when that list is not empty.
C2_SampleWhenConnectorEmpty ==
    (ret.op = "get_preorder_products" /\ ~testMode) =>
        IF ret.conn = None \/ ret.conn = List(<< >>)
        THEN ret.val = TestPreorderProducts(ret.key.limit, ret.day)
        ELSE ret.val = ret.conn

FirstOk(script, i) ==
    script[i].st = "ok" /\ \A j \in 1..(i - 1) : script[j].st # "ok"

\* C3: when an attempt within the retry bound is the first to succeed,
\* run_query_with_retries returns that answer's data; so with max_retries = 3
\* two non-200 answers and then a clean 200 answer return the third's data.
C3_FirstSuccessReturned ==
    rq # NoQuery =>
        \A i \in 1..rq.max_retries :
            FirstOk(rq.script, i) =>
                rq.out.kind = "return" /\ rq.out.data = rq.script[i].data

C3_Witness ==
    /\ rq # NoQuery
    /\ rq.max_retries = DefaultMaxRetries
    /\ rq.script[1].st = "non200"
    /\ rq.script[2].st = "non200"
    /\ rq.script[3].st = "ok"
    /\ rq.out = [kind |-> "return", data |-> rq.script[3].data,
                 n |-> DefaultMaxRetries, requests |-> 3]

\* C4: when every one of the max_retries attempts fails, in any mix of
\* non-200 answers, 'errors' payloads and exceptions, run_query_with_retries
\* raises the error that names max_retries and returns nothing; with
\* max_retries = 0 it raises without a request.
C4_ExhaustedRaises ==
    (rq # NoQuery /\ \A i \in 1..rq.max_retries : rq.script[i].st # "ok") =>
        /\ rq.out.kind = "raise"
        /\ rq.out.n = rq.max_retries
        /\ rq.out.requests = rq.max_retries
        /\ rq.out.data = None

C4_Witness ==
    /\ rq # NoQuery
    /\ rq.max_retries = DefaultMaxRetries
    /\ rq.script[1].st = "non200"
    /\ rq.script[2].st = "errors"
    /\ rq.script[3].st = "exception"
    /\ rq.out.kind = "raise"

Has(v, field) == field \in DOMAIN v

\* C5: in live mode no facade operation raises to its caller, whatever the
\* connector and the file operations do: it returns a value of its own type,
\* and its documented default when a call it makes fails.
C5_NeverRaises ==
    (ret.op # "none" /\ ~testMode) =>
        /\ ret.exc = "none"
        /\ ret.op = "get_preorder_products" => Has(ret.val, "list")
        /\ ret.op = "get_pending_releases" =>
              /\ Has(ret.val, "dict")
              /\ (ret.io # "ok" \/ ~audit.exists) => ret.val = EmptyPending
        /\ ret.op = "get_preorder_tracking_data" =>
              /\ Has(ret.val, "table")
              /\ (ret.io # "ok" \/ tracking # "rows") => ret.val = EmptyTracking
        /\ ret.op = "get_pub_date_overrides" =>
              /\ Has(ret.val, "map")
              /\ (ret.io # "ok" \/ ~ret.pre) => ret.val = EmptyMap
        /\ ret.op = "update_pub_date_override" =>
              /\ Has(ret.val, "bool")
              /\ (ret.io \in {"makedirs", "write"} \/ (ret.io = "read" /\ ret.pre))
                    => ret.val = Bool(FALSE)
        /\ ret.op = "get_approval_status" =>
              /\ Has(ret.val, "list")
              /\ (\E i \in 1..Len(ret.conn.list) :
                     ~ret.conn.list[i].keys \/ ret.conn.list[i].body = None)
                    => ret.val = List(<< >>)

C5_Witness ==
    /\ ~testMode
    /\ ret.op = "get_pending_releases"
    /\ ret.io = "ok"
    /\ audit.exists
    /\ FebName \in DOMAIN audit.files
    /\ audit.files[FebName].content.kind = "malformed"
    /\ ret.exc = "none"
    /\ ret.val = EmptyPending

\* C6: a facade built in test mode builds no connector, so its construction
\* succeeds under every environment, and none of its operations issues an
\* HTTP request or reads or writes a data file.
C6_TestModeIsolated ==
    testMode =>
        /\ svc # "failed"
        /\ connectors = {}
        /\ net = FALSE
        /\ touched = {}
        /\ ret.exc = "none"

C6_Witness ==
    /\ testMode
    /\ svc = "ready"
    /\ env.SHOP_URL = "absent"
    /\ env.GITHUB_TOKEN = "absent"
    /\ env.GITHUB_REPOSITORY = Str(NoSlashRepo)
    /\ ret.op = "update_pub_date_override"
    /\ net = FALSE
    /\ touched = {}

\* C7: in test mode two calls of the same query return the same payload,
\* whatever the clock reads at each call.
C7_SamePayloadAnyClock ==
    (testMode /\ ret.key = hist.q /\ hist.first # None) => ret.val = hist.first

\* C7, amended: in test mode two calls of the same query return the same
\* payload when the clock reads the same date at both, whatever happened in
\* between; get_approval_status returns the same payload at any two dates.
C7_SamePayloadSameDate ==
    (testMode /\ ret.key = hist.q /\ hist.first # None) =>
        ((ret.day = hist.day \/ ret.op = "get_approval_status") => ret.val = hist.first)

C7_Witness ==
    /\ testMode
    /\ hist.q.op = "get_approval_status"
    /\ ret.key = hist.q
    /\ hist.first # None
    /\ ret.day > hist.day
    /\ ret.val = hist.first

\* C8: in test mode update_pub_date_override returns True for every isbn and
\* date and leaves the overrides file as it was, and get_pub_date_overrides
\* returns after it the mapping it returned before it.
C8_TestUpdateIsNoOp ==
    [][(testMode /\ ret'.op = "update_pub_date_override" /\ ret' # ret) =>
          /\ ret'.val = Bool(TRUE)
          /\ ret'.exc = "none"
          /\ file' = file
          /\ GetPubDateOverrides(testMode', file', today', "ok").val
                = GetPubDateOverrides(testMode, file, today, "ok").val]_vars

C8_Witness ==
    /\ testMode
    /\ ret.op = "update_pub_date_override"
    /\ ret.val = Bool(TRUE)
    /\ file = FileOf(<< SeedRow(<< 7 >>) >>)
    /\ GetPubDateOverrides(testMode, file, today, "ok").val = TestPubDateOverrides(today)

\* C9: in live mode with no overrides file, get_pub_date_overrides returns
\* the empty mapping, and update_pub_date_override(isbn, date), its file
\* operations succeeding, returns True and creates the file with the header
\* ISBN, Corrected_Pub_Date, Notes, Updated_At and the single row of isbn,
\* date and the note 'Added via dashboard'.
C9_MissingFile ==
    /\ (~testMode /\ ret.op = "get_pub_date_overrides" /\ ~ret.pre) =>
          ret.val = EmptyMap /\ ~file.exists
    /\ (~testMode /\ ret.op = "update_pub_date_override" /\ ~ret.pre
          /\ ret.io \notin {"makedirs", "write"}) =>
          /\ ret.val = Bool(TRUE)
          /\ file.exists
          /\ file.header = << "ISBN", "Corrected_Pub_Date", "Notes", "Updated_At" >>
          /\ file.rows = << [ISBN |-> ret.args.isbn,
                             Corrected_Pub_Date |-> ret.args.date,
                             Notes |-> "Added via dashboard",
                             Updated_At |-> Strftime(ret.day)] >>

C9_Witness ==
    /\ ~testMode
    /\ ret.op = "update_pub_date_override"
    /\ ~ret.pre
    /\ ret.val = Bool(TRUE)
    /\ file.exists
    /\ Len(file.rows) = 1
    /\ file.rows[1].ISBN = << 7 >>

GreatestPending(dir) ==
    CHOOSE a \in DOMAIN dir.files :
        /\ IsPendingName(a)
        /\ \A b \in DOMAIN dir.files : IsPendingName(b) => ~LexLess(a, b)

LatestReadable ==
    /\ ~testMode
    /\ ret.op = "get_pending_releases"
    /\ ret.io = "ok"
    /\ audit.exists
    /\ \E a \in DOMAIN audit.files : IsPendingName(a)

C11_EmptyRecordOnFailure ==
    (~testMode /\ ret.op = "get_pending_releases") =>
        ((\/ ~audit.exists
          \/ PendingFiles(audit) = {}
          \/ audit.files[GreatestPending(audit)].content.kind = "malformed")
            => ret.val = EmptyPending)

C11_Witness ==
    /\ LatestReadable
    /\ JanName \in DOMAIN audit.files
    /\ FebName \in DOMAIN audit.files
    /\ audit.files[JanName].content.kind = "object"
    /\ audit.files[FebName].content.kind = "malformed"
    /\ ret.val = EmptyPending

IsCheckedCell(cell) == cell \in {CheckedCell, CheckedUpperCell}

IsDigitCell(cell) == cell # << >> /\ \A i \in 1..Len(cell) : IsDigitAt(cell, i)

\* A row '| [x] | <digits> | ...'
IsApprovedRow(row) ==
    Len(row.cells) >= 2 /\ IsCheckedCell(row.cells[1]) /\ IsDigitCell(row.cells[2])

\* A row whose box is unchecked, or that has no box
IsOpenRow(row) == \A i \in 1..Len(row.cells) : ~IsCheckedCell(row.cells[i])

RECURSIVE ApprovedOf(_)
ApprovedOf(rows) ==
    IF rows = << >> THEN << >>
    ELSE (IF IsApprovedRow(Head(rows))
          THEN << [k \in 1..Len(Head(rows).cells[2]) |-> Head(rows).cells[2][k] - Zero] >>
          ELSE << >>) \o ApprovedOf(Tail(rows))

\* C12: over a body whose lines are '| [x] | <digits> | ...' rows, rows with
\* an unchecked box and rows without a box, approval-body parsing returns,
\* in line order, the digits of the column after the checked box of every
\* row of the first kind and nothing for the others.
C12_CheckedRowsInOrder ==
    (ret.op = "_parse_issue_body"
       /\ \A i \in 1..Len(ret.args.rows) :
             IsApprovedRow(ret.args.rows[i]) \/ IsOpenRow(ret.args.rows[i]))
        => ret.val = List(ApprovedOf(ret.args.rows))

C12_Witness ==
    /\ ret.op = "_parse_issue_body"
    /\ ret.args.rows = << [cells |-> << CheckedCell, IsbnCell, WordCell >>, pad |-> 1] >>
    /\ ret.val = List(<< << 9, 7, 8, 0, 2, 6, 2, 5, 5, 1, 3, 1, 1 >> >>)

\* C13: no operation of the local file store raises past its boundary,
\* whatever call of it fails, the creation of the parent directory and the
\* inspection of the target included: a failed read returns the caller's
\* default, a failed write or append False, get_recent_files [] and
\* backup_file None.
C13_FileStoreNeverRaises ==
    ret.op \in {"read_json", "write_json", "read_csv", "write_csv", "append_csv",
                "get_recent_files", "backup_file"} =>
        /\ ret.exc = "none"
        /\ ret.io # "ok" =>
              /\ ret.op \in {"read_json", "read_csv"} => ret.val = ret.args.default
              /\ ret.op \in {"write_json", "write_csv", "append_csv"} =>
                    ret.val = Bool(FALSE)
              /\ ret.op = "get_recent_files" => ret.val = List(<< >>)
              /\ ret.op = "backup_file" => ret.val = None

\* The success status of an issue-tracker operation.
SuccessStatus(op) == IF op = "create_issue" THEN 201 ELSE 200

\* A request the call made met a non-success status or a transport error.
RequestFailed ==
    \E p \in 1..ret.conn.requests :
        ret.args.script[p].raises \/ ret.args.script[p].status # SuccessStatus(ret.op)

\* C14: get_issues, get_issue, create_issue and update_issue never raise;
\* when a request meets a non-success status or a transport error,
\* get_issues returns the empty list, on a later page as on the first, and
\* the other three return None.
C14_IssueOpsDefaultOnFailure ==
    ret.op \in {"get_issues", "get_issue", "create_issue", "update_issue"} =>
        /\ ret.exc = "none"
        /\ RequestFailed =>
              IF ret.op = "get_issues" THEN ret.val = List(<< >>) ELSE ret.val = None

\* The repository, read with its default, has exactly one '/'.
OwnerAndName(e) == Cardinality({i \in 1..Len(Repository(e)) : Repository(e)[i] = Slash}) = 1

\* C15: construction of a live service fails exactly when a required setting
\* is bad: in the commerce connector when SHOP_URL or SHOPIFY_ACCESS_TOKEN
\* is absent, else in the issue-tracker connector when GITHUB_TOKEN is
\* absent or GITHUB_REPOSITORY does not split on '/' into two parts; with
\* every setting valid it succeeds and both connectors are built.
C15_FailsExactlyOnBadSetting ==
    (~testMode /\ svc # "unbuilt") =>
        LET shop == Unset(env.SHOP_URL) \/ Unset(env.SHOPIFY_ACCESS_TOKEN)
            hub == Unset(env.GITHUB_TOKEN) \/ ~OwnerAndName(env)
        IN  /\ svc = "failed" <=> (shop \/ hub)
            /\ shop => connectors = {}
            /\ (~shop /\ hub) => connectors = {"shopify"}
            /\ svc = "ready" => connectors = {"shopify", "github"}

C15_Witness ==
    /\ ~testMode
    /\ svc = "failed"
    /\ env = [GoodEnv EXCEPT !.GITHUB_REPOSITORY = Str(DeepRepo)]
    /\ connectors = {"shopify"}

\* The answer run_query_with_retries returns the data of: the first "ok"
\* one among the DefaultMaxRetries first, or 0.
ServedBy(script) ==
    LET oks == {i \in 1..DefaultMaxRetries : script[i].st = "ok"}
    IN  IF oks = {} THEN 0 ELSE MinOf(oks)

\* The data served cannot be traversed: the collection is null, or an edge
\* lacks its node, id or title.
Untraversable(data) ==
    data.coll = "null" \/ \E i \in 1..Len(data.edges) : ~data.edges[i].ok

\* C16: get_products_from_collection does not raise, and returns the empty
\* list whenever its query exhausts its retries or the response cannot be
\* traversed, as when collectionByHandle is null.
C16_EmptyListOnFailure ==
    ret.op = "get_products_from_collection" =>
        /\ ret.exc = "none"
        /\ (\/ ServedBy(ret.args.script) = 0
            \/ Untraversable(ret.args.script[ServedBy(ret.args.script)].data))
              => ret.val = List(<< >>)

C16_Witness ==
    /\ ret.op = "get_products_from_collection"
    /\ ret.args.script[1].st = "non200"
    /\ ret.args.script[2].st = "ok"
    /\ ret.args.script[2].data.coll = "null"
    /\ ret.val = List(<< >>)
    /\ net

\* The page that a script serves (all its successful answers carry it).
ServedPage(script) == script[DefaultMaxRetries].data

\* The line items <<page, order, item>> of the fetched pages that belong to an
\* order that is not cancelled and have a variant, a product and a barcode
\* starting with 978 or 979.
SoldPositions ==
    {pos \in UNION {UNION {{<< k, i, j >> :
                              j \in 1..Len(ServedPage(ret.args.pages[k]).orders[i].items)} :
                          i \in 1..Len(ServedPage(ret.args.pages[k]).orders)} :
                    k \in 1..ret.conn.fetched} :
        LET order == ServedPage(ret.args.pages[pos[1]]).orders[pos[2]]
            item  == order.items[pos[3]]
        IN  /\ ~order.cancelled
            /\ item.variant /\ item.product
            /\ Len(item.barcode) >= 3
            /\ item.barcode[1] = 9 /\ item.barcode[2] = 7 /\ item.barcode[3] \in {8, 9}}

Earlier(p, q) ==
    \/ p[1] < q[1]
    \/ p[1] = q[1] /\ p[2] < q[2]
    \/ p[1] = q[1] /\ p[2] = q[2] /\ p[3] < q[3]

RecordIsOf(rec, pos) ==
    LET order == ServedPage(ret.args.pages[pos[1]]).orders[pos[2]]
        item  == order.items[pos[3]]
    IN  /\ rec.order_id = order.id
        /\ rec.barcode = item.barcode
        /\ rec.quantity = item.quantity

SalesReturned == ret.op = "get_preorder_sales" /\ ret.exc = "none"

EveryRecordIsSold ==
    \A n \in 1..Len(ret.val.list) : \E pos \in SoldPositions : RecordIsOf(ret.val.list[n], pos)

EverySoldItemHasItsRecord ==
    /\ Len(ret.val.list) = Cardinality(SoldPositions)
    /\ \A pos \in SoldPositions :
          RecordIsOf(ret.val.list[1 + Cardinality({q \in SoldPositions : Earlier(q, pos)})],
                     pos)

\* C17 as stated: every record that get_preorder_sales returns comes from an
\* order that is not cancelled and has a barcode starting with 978 or 979,
\* and every line item of a fetched order that is not cancelled, with a
\* variant, a product and such a barcode, yields exactly one record, in page
\* order, then order order, then line-item order.
C17_EveryFetchedItemRecorded ==
    SalesReturned => EveryRecordIsSold /\ EverySoldItemHasItsRecord

\* C17, amended: every returned record comes from such a line item; when no
\* exception reaches the handler of the call (every page query succeeds and
\* every such line item carries a title) every such line item of the fetched
\* pages yields exactly one record, in page, order and line-item order; when
\* one does, the call returns the empty list, whatever was fetched before.
C17_RecordsOfCompletedTraversal ==
    SalesReturned =>
        /\ EveryRecordIsSold
        /\ ~ret.conn.caught => EverySoldItemHasItsRecord
        /\ ret.conn.caught => ret.val.list = << >>

C17_Witness ==
    /\ SalesReturned
    /\ ~ret.conn.caught
    /\ ret.conn.fetched = 2
    /\ Len(ret.val.list) = 4
    /\ \E i \in 1..Len(ServedPage(ret.args.pages[1]).orders) :
          ServedPage(ret.args.pages[1]).orders[i].cancelled
    /\ ret.val.list[1].order_id # ret.val.list[4].order_id

BothDoneFor(k) == \A t \in Threads : threads[t].pc = "done" /\ threads[t].isbn = k

\* C18: when two live update_pub_date_override calls for the same ISBN run
\* concurrently, their file reads and file writes interleaved in any order,
\* the final overrides file holds exactly one row for that ISBN, and the
\* row's date is the date of the call whose write happened last.
C18_LastWriteWins ==
    \A k \in IsbnInputs :
        BothDoneFor(k) =>
            /\ Cardinality(RowsFor(k)) = 1
            /\ \A i \in RowsFor(k) : file.rows[i].Corrected_Pub_Date = latest[k]

\* The ISBNs that have a row in the overrides file.
IsbnsIn(f) == {f.rows[i].ISBN : i \in 1..Len(f.rows)}

\* C19: the set of ISBNs present in the overrides file never shrinks: no
\* facade operation and no dashboard action, the 'Delete Selected Overrides'
\* button included, removes an override row, so an ISBN that has a row keeps
\* one in every later state.
C19_OverridesNeverShrink == [][IsbnsIn(file) \subseteq IsbnsIn(file')]_vars

PageShown == ret.op = "show_preorder_management"

\* The products of the page load that have a barcode.
Sources == SelectSeq(ret.conn.products, LAMBDA p : p.barcode # << >>)

IsOverridden(p) == StrCell(p.barcode) \in DOMAIN ret.conn.overrides.map

\* The date that counts for a product: the override's when it has one.
EffectiveDate(p) ==
    IF IsOverridden(p) THEN [date |-> ret.conn.overrides.map[StrCell(p.barcode)]]
    ELSE p.pub_date

\* The listing of the same products, had each come with its effective date
\* as source date and had there been no override.
ListingOfEffectiveDates ==
    CurrentPreorders([i \in 1..Len(Sources) |->
                         [Sources[i] EXCEPT !.pub_date = EffectiveDate(Sources[i])]],
                     EmptyMap, ret.args.search_term, ret.args.date_filter,
                     ret.args.sort_by, ret.day)

ShownDates(rows) ==
    [i \in 1..Len(rows) |->
        [ISBN |-> rows[i].ISBN, Title |-> rows[i].Title,
         Publication_Date |-> rows[i].Publication_Date]]

C21_RequestsOnlyAfterFailure ==
    rq # NoQuery =>
        /\ rq.out.requests <= rq.max_retries
        /\ \A i \in 1..(rq.out.requests - 1) : rq.script[i].st # "ok"
        /\ rq.out.kind = "return" => rq.script[rq.out.requests].st = "ok"
        /\ rq.out.kind = "raise" =>
              \A i \in 1..rq.out.requests : rq.script[i].st # "ok"

C21_Witness ==
    /\ rq # NoQuery
    /\ rq.max_retries = DefaultMaxRetries
    /\ rq.script[1].st = "exception"
    /\ rq.script[2].st = "ok"
    /\ rq.script[3].st = "ok"
    /\ rq.out.kind = "return"
    /\ rq.out.requests = 2

\* C22: the pagination loop of get_preorder_sales terminates for every
\* sequence of server responses that each arrive within the retry bound, and
\* every page that reports hasNextPage true moves the cursor on, so that the
\* same page is never asked for twice.
C22_PaginationTerminates ==
    /\ [](~loop.repeated)
    /\ (loop.pc = "running") ~> (loop.pc = "done")

IssuesListed == ret.op = "get_issues"

\* The issues gathered from the first n pages of the call's script.
RECURSIVE Gathered(_)
Gathered(n) == IF n = 0 THEN 0 ELSE Gathered(n - 1) + Len(ret.args.script[n].body)

\* After page i the loop stops: the request failed, the page is empty or
\* shorter than per_page, or limit issues are gathered.
StopsAfter(i) ==
    LET response == ret.args.script[i]
    IN  \/ response.raises
        \/ response.status # 200
        \/ response.body = << >>
        \/ Len(response.body) < ret.conn.per_page
        \/ Gathered(i) >= ret.args.limit

\* C23: for every limit and every sequence of responses get_issues returns,
\* with at most limit issues; it asks for pages 1, 2, 3, ... in this order
\* with per_page = min(limit, 100), and for no page after an empty page, a
\* page shorter than per_page, a non-200 response or once limit issues are
\* gathered.
C23_IssuePagesBounded ==
    IssuesListed =>
        /\ ret.exc = "none"
        /\ Len(ret.val.list) <= ret.args.limit
        /\ ret.conn.per_page = (IF ret.args.limit < 100 THEN ret.args.limit ELSE 100)
        /\ ret.conn.requests <= ret.args.limit
        /\ \A i \in 1..(ret.conn.requests - 1) : ~StopsAfter(i)
        /\ ret.conn.requests > 0 => StopsAfter(ret.conn.requests)

C23_Witness ==
    /\ IssuesListed
    /\ ret.args.limit = 150
    /\ ret.conn.requests = 2
    /\ Len(ret.args.script[2].body) = 100
    /\ Len(ret.val.list) = 150
    /\ ret.val.list[150].number = 150

\* C24: each call of get_issue, create_issue, update_issue and add_comment
\* issues exactly one HTTP request and does not repeat it after a failure;
\* update_issue called with no field to change issues none.
C24_OneRequestNoRetry ==
    /\ ret.op \in {"get_issue", "create_issue", "add_comment"} => ret.conn.requests = 1
    /\ ret.op = "update_issue" =>
          ret.conn.requests = (IF ret.args.fields = {} THEN 0 ELSE 1)

C24_Witness ==
    /\ ret.op = "add_comment"
    /\ ret.args.script[1].status = 404
    /\ ret.args.script[2].status = 201
    /\ ret.conn.requests = 1
    /\ ret.val = None

\* Both calls have returned True, for different ISBNs, and u wrote last.
RacedApart(t, u) ==
    /\ t # u
    /\ threads[t].pc = "done" /\ threads[u].pc = "done"
    /\ threads[t].isbn # threads[u].isbn
    /\ threads[u].last

\* An ISBN as pandas writes it back from an all-digit column.
AsNumber(k) == IF IsDigits(k) THEN IntToText(TextToInt(k)) ELSE k

\* C25 as stated: when two live updates for two different ISBNs run
\* concurrently, reads and writes interleaved in any order, and both return
\* True, the final file holds a row for each of the two ISBNs.
C25_NoUpdateLost ==
    \A t, u \in Threads :
        RacedApart(t, u) =>
            RowsFor(threads[t].isbn) # {} /\ RowsFor(threads[u].isbn) # {}

\* C25, amended: the final file is the frame of the call that wrote last.
\* It holds that call's row with that call's date.  When that call read the
\* file after the other call wrote it, the file also holds a row for the
\* other ISBN (as a number when the column was all digits); when it read the
\* file before, the other call's update is lost: the file holds a row for
\* the other ISBN only if the file that was read held one.
C25_LastWriterOverwrites ==
    \A t, u \in Threads :
        RacedApart(t, u) =>
            /\ ret.val = Bool(TRUE)
            /\ \E i \in RowsFor(threads[u].isbn) :
                  file.rows[i].Corrected_Pub_Date = threads[u].date
            /\ threads[u].sawOther =>
                  RowsFor(threads[t].isbn) \cup RowsFor(AsNumber(threads[t].isbn)) # {}
            /\ (/\ ~threads[u].sawOther
                /\ \A i \in 1..Len(threads[u].read.rows) :
                      /\ threads[u].read.rows[i].ISBN # threads[t].isbn
                      /\ AsNumber(threads[u].read.rows[i].ISBN) # threads[t].isbn)
               => RowsFor(threads[t].isbn) = {}

\* Both calls read the empty file before either wrote: the first writer's
\* row is gone.
C25_Witness ==
    \E t, u \in Threads :
        /\ RacedApart(t, u)
        /\ ~threads[u].sawOther /\ ~threads[t].sawOther
        /\ threads[u].read.rows = << >>
        /\ Len(file.rows) = 1
        /\ RowsFor(threads[t].isbn) = {}
        /\ latest[threads[t].isbn] # None

\* The step is a live update_pub_date_override that returned True.
UpdateSucceeds ==
    /\ ~testMode
    /\ ret' # ret
    /\ ret'.op = "update_pub_date_override"
    /\ ret'.val = Bool(TRUE)

\* C26: a successful live update_pub_date_override(k, d) leaves every row
\* whose ISBN differs from k as it was, in all four columns and in its
\* place, and when a row for k exists it changes only that row's
\* Corrected_Pub_Date and Updated_At and keeps its Notes.
C26_UpdateTouchesOnlyItsRow ==
    [][UpdateSucceeds =>
          /\ Len(file'.rows) >= Len(file.rows)
          /\ \A i \in 1..Len(file.rows) :
                IF file.rows[i].ISBN # ret'.args.isbn
                THEN file'.rows[i] = file.rows[i]
                ELSE /\ file'.rows[i].ISBN = file.rows[i].ISBN
                     /\ file'.rows[i].Notes = file.rows[i].Notes
          /\ RowsFor(ret'.args.isbn) # {} =>
                /\ Len(file'.rows) = Len(file.rows)
                /\ \E i \in RowsFor(ret'.args.isbn) :
                      file'.rows[i].Corrected_Pub_Date = ret'.args.date]_vars

\* C27: a live get_approval_status returns one record per issue the
\* connector returned for the label, in the connector's order, each with the
\* issue's number, title, created_at, url and state copied and the ISBNs
\* parsed from that issue's own body, whatever the bodies of the other
\* issues are (a null or missing body included).
C27_OneRecordPerIssue ==
    (ret.op = "get_approval_status" /\ ~testMode) =>
        /\ ret.exc = "none"
        /\ Len(ret.val.list) = Len(ret.conn.list)
        /\ \A i \in 1..Len(ret.conn.list) :
              LET issue == ret.conn.list[i]
                  record == ret.val.list[i]
              IN  issue.keys =>
                    /\ record.issue_number = issue.number
                    /\ record.title = issue.title
                    /\ record.created_at = issue.created_at
                    /\ record.url = issue.html_url
                    /\ record.status = issue.state
                    /\ issue.body # None =>
                          record.approved_isbns = ParseIssueBody(issue.body)

\* C28: current_page starts as dashboard and is always one of the five
\* pages; a sidebar click sets it to the clicked page, and a run started by
\* anything but a sidebar click, 'Go to Approvals Page' or 'Edit Publication
\* Date' leaves it as it was.
C28_CurrentPageIsAPage ==
    /\ session.current_page = "dashboard"
    /\ [](session.current_page \in Pages)
    /\ [][/\ ClickSidebar => (session'.nav \in Pages
                               /\ session'.current_page = session'.nav)
          /\ (SwitchTestMode \/ ClickRefreshData \/ ClickPrevious \/ ClickNext
                \/ ChangeSearch) => session'.current_page = session.current_page]_vars

C28_Witness ==
    /\ session.nav = "reports"
    /\ session.current_page = "reports"
    /\ session.screen.page = "reports"

\* The stored page index is between 0 and total_pages - 1, total_pages is
\* max(1, ceil(matches / 10)), and the page of options shown is empty only
\* when no option matches the search.
PagerInRange ==
    /\ session.screen.page = "override_management"
    /\ session.has_override_page
    /\ 0 <= session.override_page
    /\ session.override_page <= session.screen.total_pages - 1
    /\ session.screen.total_pages
          = (IF session.screen.matches > PageSize
             THEN (session.screen.matches + PageSize - 1) \div PageSize ELSE 1)
    /\ (session.screen.shown = << >>) <=> (session.screen.matches = 0)

\* C29: on the override page the stored page index satisfies
\* 0 <= override_page <= total_pages - 1 after the first render and after
\* every Previous click, Next click and change of the search term, so the
\* page of options shown is empty only when no option matches the search.
C29_PageIndexInRange ==
    [][/\ (~session.has_override_page /\ session'.screen.page = "override_management")
             => PagerInRange'
       /\ (PagerInRange /\ (ClickPrevious \/ ClickNext \/ ChangeSearch))
             => PagerInRange']_vars

\* The dates around the clock's readings, and the texts strptime reads as
\* a given date: the month zero-padded or bare, the day zero-padded, bare or
\* space-padded.
NearDates == {Strftime(n) : n \in (Day0 - 3)..(Day0 + 3)}

Readings(date) ==
    {DateText(date, mp, dp) : mp \in {"zero", "none"}, dp \in {"zero", "none", "space"}}

\* The class of a publication date when the texts of texts(date) are the
\* ways to write a date: "missing" (absent or empty), "future" (a date after
\* today), "past" (a date today or earlier), "malformed" (any other text).
ClassesOf(pub_date, now, texts(_)) ==
    LET written == {date \in NearDates : ~IsFalsy(pub_date) /\ pub_date.str \in texts(date)}
    IN  {c \in {"missing", "malformed", "future", "past"} :
           \/ c = "missing" /\ IsFalsy(pub_date)
           \/ c = "malformed" /\ ~IsFalsy(pub_date) /\ written = {}
           \/ c = "future" /\ \E date \in written :
                                 DateNumber(date) > DateNumber(Strftime(now))
           \/ c = "past" /\ \E date \in written :
                               DateNumber(date) <= DateNumber(Strftime(now))}

\* products with those that are not of class c left out
OfClass(products, c, now, texts(_)) ==
    LET keep == [i \in 1..Len(products) |->
                    c \in ClassesOf(products[i].pub_date, now, texts)]
        RECURSIVE Pick(_)
        Pick(n) == IF n = 0 THEN << >>
                   ELSE Pick(n - 1) \o (IF keep[n] THEN << products[n] >> ELSE << >>)
    IN  Pick(Len(products))

\* Each product is of one class, the dashboard's four counts are the sizes
\* of the classes and sum to the number of products, and the override page's
\* four lists are the classes.
PagesClassifyBy(texts(_)) ==
    LET products == ret.args.products
        now == ret.day
        counts == DashboardCounts(products, now)
        lists == PubDateIssues(products, now)
    IN  /\ \A i \in 1..Len(products) :
              Cardinality(ClassesOf(products[i].pub_date, now, texts)) = 1
        /\ ret.op = "show_dashboard" => ret.val = counts
        /\ ret.op = "show_override_management" => ret.val = lists
        /\ counts.future + counts.past + counts.missing + counts.malformed = Len(products)
        /\ \A c \in {"missing", "malformed", "future", "past"} :
              /\ lists[c] = OfClass(products, c, now, texts)
              /\ counts[c] = Len(lists[c])

DatesShown == ret.op \in {"show_dashboard", "show_override_management"}

\* C30 as stated: the classification puts every product in exactly one of
\* missing (pub_date absent or empty), malformed (present but not
\* YYYY-MM-DD), future (after today) and past (today or earlier); the four
\* dashboard counts sum to the number of products and both pages classify a
\* product the same way.
C30_FourClassesByIsoDate ==
    DatesShown => PagesClassifyBy(LAMBDA date : {IsoText(date)})

\* C30, amended: the same, where malformed is a text that
\* strptime('%Y-%m-%d') rejects; it reads a month or day of one digit
\* ('2025-3-1') as a date, so such a product is future or past.
C30_FourClassesByStrptime ==
    DatesShown => PagesClassifyBy(Readings)

C30_Witness ==
    /\ ret.op = "show_dashboard"
    /\ Len(ret.args.products) = 2
    /\ ret.args.products[1].pub_date = Str(DateText(Strftime(Day0 + 1), "none", "none"))
    /\ ret.args.products[2].pub_date = Str(<< >>)
    /\ ret.val.future = 1
    /\ ret.val.missing = 1

====
